---- MODULE Spec2Model ----
(***************************************************************************)
(* Symbolic scene-graph extraction for Seaquest frames: the game objects   *)
(* and their geometric predicates (core/game_object.py), the relationship  *)
(* analyzer (core/relationship_analyzer.py and its Seaquest subclass) and  *)
(* the object detector (core/object_detector.py and its Seaquest subclass).*)
(*                                                                         *)
(* Representation.                                                         *)
(*   - A GameObject is a record; its field id is id(self), the identity of *)
(*     the Python instance.  GameObject defines no __eq__, so Python's ==  *)
(*     on two instances is identity, which is record equality here because *)
(*     live instances have different id.                                   *)
(*   - A string "<prefix>_<n>" is the pair <<prefix, n>>; a string with no *)
(*     numeric suffix is the 1-tuple <<prefix>>; None is <<>>.             *)
(*   - A float ratio is the pair <<numerator, denominator>> with a         *)
(*     positive denominator, compared by cross multiplication.             *)
(*   - A distance is kept squared (the code takes the square root of this  *)
(*     integer; the root is monotone and injective on naturals).           *)
(***************************************************************************)
EXTENDS Integers, Sequences, FiniteSets, TLC

(***************************************************************************)
(* Bounds of the model.                                                    *)
(***************************************************************************)
MaxX == 1
MaxW == 2
MaxY == 3
MaxH == 3
AddrBase == 1000
AddrStride == 50
MaxRegions == 2
MaxFrames == 2
MaxFacts == 3
MaxMissileRegions == 4
MaxCoords == 4
MaxLines == 2
MaxUpdates == 2
MaxImages == 3
MaxOrderRegions == 3
MaxFilterRegions == 3
MaxPathLen == 4

(***************************************************************************)
(* Program constants.                                                      *)
(***************************************************************************)
MIN_COVERAGE_RATIO == <<51, 100>>
WATER_SURFACE_Y == 47
REF_WIDTH == 160
REF_HEIGHT == 1
ESC_KEY == 27

None == <<>>

VARIABLES
    pc,         \* position of the scenario being run
    objA,       \* pair scenario: first GameObject of the pair
    objB,       \* pair scenario: second GameObject of the pair
    tau,        \* pair scenario: the min_coverage argument of the predicates
    pairRels,   \* pair scenario: result of _analyze_object_relationships(objA, objB)
    preds,      \* pair scenario: results of the geometric predicates on (objA, objB)
    swapRels,   \* pair scenario: SpatialRelationship(objA, objB, t) and (objB, objA, t)
    frame,      \* index of the image being processed by the loop of run
    image,      \* the loaded image: what find_objects returns for each of its calls
    heap,       \* the next id(self) the allocator hands out
    detected_objects,   \* _process_single_image: detected_objects
    relationships,      \* _process_single_image: relationships
    connection_list,    \* _process_single_image: connection_list
    analysisError,      \* the except branch of _process_single_image was taken
    objects_list,       \* _process_single_image: objects_list
    key,                \* the key returned by display_image
    pass,               \* which pass over the same image (1 or 2)
    firstPass,          \* the connection list of the first pass
    call,               \* the last call of a detector method on its own, with its outcome
    log_lines,          \* the lines of the gaze log file
    gaze_df,            \* the gaze table: self.gaze_df
    load_error,         \* the exception load_gaze_data ended with, "" if it returned
    updates,            \* the calls of update_frame_data made so far
    saved,              \* what save_updated_gaze_data wrote, None before it is called
    folder,             \* the image folder given to run and the log file beside it
    fps,                \* the fps argument of run
    images,             \* run: the sorted list of image names
    processed,          \* the images detect_all_objects was called on, in order
    diagnostics,        \* the warnings and failure messages printed by run
    run_error,          \* the exception run ended with, "" if none
    text_file_path      \* the original_path given to save_updated_gaze_data

pairVars == <<objA, objB, tau, pairRels, preds, swapRels>>

frameVars == <<frame, image, heap, detected_objects, relationships, connection_list,
               analysisError, objects_list, key, pass, firstPass>>

gazeVars == <<log_lines, gaze_df, load_error, updates, saved>>

ioVars == <<call, gazeVars>>

runVars == <<folder, fps, images, processed, diagnostics, run_error, text_file_path>>

vars == <<pc, pairVars, frameVars, ioVars, runVars>>

(***************************************************************************)
(* core/game_object.py                                                     *)
(***************************************************************************)

\* GameObject.__init__: object_id falls back to "<type>_<id(self)>" when the
\* object_id argument is None (or empty); self_id is id(self).
GameObject(object_type, bounding_box, facing_side, object_id, self_id) ==
    [object_type |-> object_type,
     x           |-> bounding_box[1],
     y           |-> bounding_box[2],
     width       |-> bounding_box[3],
     height      |-> bounding_box[4],
     facing_side |-> facing_side,
     object_id   |-> IF object_id # None THEN object_id ELSE <<object_type, self_id>>,
     id          |-> self_id]

bounding_box(obj) == <<obj.x, obj.y, obj.width, obj.height>>

\* Python's // on integers is floor division; \div is floor division too.
center(obj) == <<obj.x + (obj.width \div 2), obj.y + (obj.height \div 2)>>

left(obj) == obj.x

right(obj) == obj.x + obj.width

top(obj) == obj.y

bottom(obj) == obj.y + obj.height

Max(i, j) == IF i >= j THEN i ELSE j

Min(i, j) == IF i <= j THEN i ELSE j

\* r1 < r2 and r1 >= r2 on ratios with positive denominators
RatioLess(r1, r2) == r1[1] * r2[2] < r2[1] * r1[2]

RatioGeq(r1, r2) == r1[1] * r2[2] >= r2[1] * r1[2]

\* SpatialRelationship._calculate_distance, squared
calculate_distance_mut(obj1, obj2) ==
    LET center1 == center(obj1)
        center2 == <<obj2.x, obj2.y>>
    IN  (center1[1] - center2[1]) * (center1[1] - center2[1])
        + (center1[2] - center2[2]) * (center1[2] - center2[2])

calculate_distance(obj1, obj2) ==
    LET center1 == center(obj1)
        center2 == center(obj2)
    IN  (center1[1] - center2[1]) * (center1[1] - center2[1])
        + (center1[2] - center2[2]) * (center1[2] - center2[2])

\* SpatialRelationship.__init__
SpatialRelationship(obj1, obj2, relationship_type) ==
    [obj1 |-> obj1, obj2 |-> obj2,
     relationship_type |-> relationship_type,
     distance |-> calculate_distance(obj1, obj2)]

\* overlaps of game_object.py
overlaps(obj1, obj2) ==
    ~ (\/ right(obj1) <= left(obj2) \/ right(obj2) <= left(obj1)
       \/ bottom(obj1) <= top(obj2) \/ bottom(obj2) <= top(obj1))

above_reference_level(obj, reference_y) == obj.y < reference_y

right_of(obj1, obj2) == right(obj2) <= left(obj1)

left_of_mut(obj1, obj2) == left(obj1) <= left(obj2)

left_of(obj1, obj2) == right(obj1) <= left(obj2)

\* the three lines shared by above_of, below_of and same_level_of
mid_y(obj1) == obj1.y + (obj1.height \div 2)

coverage(obj1, obj2) ==
    Max(0, Min(bottom(obj1), bottom(obj2)) - Max(top(obj1), top(obj2)))

coverage_ratio(obj1, obj2) ==
    IF obj2.height > 0 THEN <<coverage(obj1, obj2), obj2.height>> ELSE <<0, 1>>

above_of(obj1, obj2, min_coverage) ==
    /\ mid_y(obj1) < top(obj2)
    /\ RatioLess(coverage_ratio(obj1, obj2), min_coverage)

below_of_mut(obj1, obj2, min_coverage) ==
    /\ bottom(obj1) > bottom(obj2)
    /\ RatioLess(coverage_ratio(obj1, obj2), min_coverage)

below_of(obj1, obj2, min_coverage) ==
    /\ mid_y(obj1) > bottom(obj2)
    /\ RatioLess(coverage_ratio(obj1, obj2), min_coverage)

same_level_of_mut(obj1, obj2, min_coverage) ==
    /\ top(obj2) < mid_y(obj1)
    /\ mid_y(obj1) < bottom(obj2)
    /\ RatioGeq(coverage_ratio(obj1, obj2), min_coverage)

same_level_of(obj1, obj2, min_coverage) ==
    /\ top(obj2) <= mid_y(obj1)
    /\ mid_y(obj1) <= bottom(obj2)
    /\ RatioGeq(coverage_ratio(obj1, obj2), min_coverage)

(***************************************************************************)
(* core/relationship_analyzer.py                                           *)
(***************************************************************************)

\* the legacy script's else branch: sameLevelAs without a same_level_of test
analyze_object_relationships_mut(obj1, obj2) ==
    (IF left_of(obj1, obj2)
       THEN <<SpatialRelationship(obj1, obj2, "leftOf")>>
       ELSE IF right_of(obj1, obj2)
              THEN <<SpatialRelationship(obj1, obj2, "rightOf")>>
              ELSE <<>>)
    \o
    (IF above_of(obj1, obj2, MIN_COVERAGE_RATIO)
       THEN <<SpatialRelationship(obj1, obj2, "aboveOf")>>
       ELSE IF below_of(obj1, obj2, MIN_COVERAGE_RATIO)
              THEN <<SpatialRelationship(obj1, obj2, "belowOf")>>
              ELSE <<SpatialRelationship(obj1, obj2, "sameLevelAs")>>)

\* BaseRelationshipAnalyzer._analyze_object_relationships
analyze_object_relationships(obj1, obj2) ==
    (IF left_of(obj1, obj2)
       THEN <<SpatialRelationship(obj1, obj2, "leftOf")>>
       ELSE IF right_of(obj1, obj2)
              THEN <<SpatialRelationship(obj1, obj2, "rightOf")>>
              ELSE <<>>)
    \o
    (IF above_of(obj1, obj2, MIN_COVERAGE_RATIO)
       THEN <<SpatialRelationship(obj1, obj2, "aboveOf")>>
       ELSE IF below_of(obj1, obj2, MIN_COVERAGE_RATIO)
              THEN <<SpatialRelationship(obj1, obj2, "belowOf")>>
              ELSE IF same_level_of(obj1, obj2, MIN_COVERAGE_RATIO)
                     THEN <<SpatialRelationship(obj1, obj2, "sameLevelAs")>>
                     ELSE <<>>)

\* any(level in name.lower() for level in ['water', 'surface', 'ground', 'ceiling'])
\* for a name "<prefix>_<n>" or "<prefix>": digits and '_' hold none of the four
\* words, and of the prefixes of this model only water_surface holds one.
ContainsLevelWord(name) == name[1] \in {"water_surface"}

\* str.capitalize on the reference level names
Capitalize(level_name) ==
    CASE level_name = "water_surface" -> "Water_surface"

\* BaseRelationshipAnalyzer._analyze_reference_level_relationship; self_id is the
\* id of the virtual reference object it creates
analyze_reference_level_relationship_mut(player, level_name, level_y, self_id) ==
    LET ref_obj == GameObject(level_name, <<0, level_y, REF_WIDTH, REF_HEIGHT>>,
                              <<level_name>>, None, self_id)
    IN  IF center(player)[2] < level_y
          THEN SpatialRelationship(player, ref_obj, "above" \o Capitalize(level_name))
          ELSE SpatialRelationship(player, ref_obj, "below" \o Capitalize(level_name))

analyze_reference_level_relationship(player, level_name, level_y, self_id) ==
    LET ref_obj == GameObject(level_name, <<0, level_y, REF_WIDTH, REF_HEIGHT>>,
                              <<level_name>>, None, self_id)
    IN  IF above_reference_level(player, level_y)
          THEN SpatialRelationship(player, ref_obj, "above" \o Capitalize(level_name))
          ELSE SpatialRelationship(player, ref_obj, "below" \o Capitalize(level_name))

\* BaseRelationshipAnalyzer.create_connection_list: one iteration of its loop
add_to_connection_list_mut(connections, relationship) ==
    IF ContainsLevelWord(relationship.obj2.object_id)
      THEN connections
      ELSE IF connections # <<>>
                /\ connections[Len(connections)].obj1 = relationship.obj1
                /\ connections[Len(connections)].obj2 = relationship.obj2
             THEN [connections EXCEPT ![Len(connections)].relationships =
                                         Append(@, relationship.relationship_type)]
             ELSE Append(connections,
                         [obj1 |-> relationship.obj1,
                          obj2 |-> relationship.obj2,
                          relationships |-> <<relationship.relationship_type>>,
                          distance |-> relationship.distance])

add_to_connection_list(connections, relationship) ==
    IF ContainsLevelWord(relationship.obj2.object_id)
      THEN connections
      ELSE LET found == {k \in 1..Len(connections) :
                            /\ connections[k].obj1 = relationship.obj1
                            /\ connections[k].obj2 = relationship.obj2}
           IN  IF found # {}
                 THEN LET k == CHOOSE k \in found : \A j \in found : k <= j
                      IN  [connections EXCEPT ![k].relationships =
                                                Append(@, relationship.relationship_type)]
                 ELSE Append(connections,
                             [obj1 |-> relationship.obj1,
                              obj2 |-> relationship.obj2,
                              relationships |-> <<relationship.relationship_type>>,
                              distance |-> relationship.distance])

RECURSIVE connect_from(_, _)
connect_from(connections, rels) ==
    IF rels = <<>> THEN connections
    ELSE connect_from(add_to_connection_list(connections, Head(rels)), Tail(rels))

\* BaseRelationshipAnalyzer.create_connection_list
create_connection_list(rels) == connect_from(<<>>, rels)

(***************************************************************************)
(* env/seaquest/relationship_analyzer.py                                   *)
(***************************************************************************)

\* SeaquestRelationshipConfig.get_reference_levels, in dict order
reference_levels == << <<"water_surface", WATER_SURFACE_Y>> >>

\* the types in another order
relevant_object_types_mut == <<"diver", "enemy", "enemy_submarine", "enemy_missile">>

\* relevant_object_types of analyze_all_relationships
relevant_object_types == <<"enemy", "enemy_submarine", "enemy_missile", "diver">>

\* dict.get(key, [])
Get(d, k) == IF k \in DOMAIN d THEN d[k] ELSE <<>>

RECURSIVE relationships_with_objects(_, _)
relationships_with_objects(player, objects) ==
    IF objects = <<>> THEN <<>>
    ELSE analyze_object_relationships(player, Head(objects))
         \o relationships_with_objects(player, Tail(objects))

RECURSIVE relationships_with_types(_, _, _)
relationships_with_types(player, detected, types) ==
    IF types = <<>> THEN <<>>
    ELSE relationships_with_objects(player, Get(detected, Head(types)))
         \o relationships_with_types(player, detected, Tail(types))

\* the loop over reference_levels.items(); the k-th virtual object gets id addr + k - 1
reference_relationships(player, addr) ==
    [k \in 1..Len(reference_levels) |->
        analyze_reference_level_relationship(player, reference_levels[k][1],
                                             reference_levels[k][2], addr + k - 1)]

\* players[0] without the test for an empty list raises IndexError
analyze_all_relationships_mut(detected, addr) ==
    LET players == Get(detected, "player")
    IN  IF players = <<>>
          THEN [raised |-> TRUE, relationships |-> <<>>]
          ELSE [raised |-> FALSE,
                relationships |->
                    reference_relationships(players[1], addr)
                    \o relationships_with_types(players[1], detected, relevant_object_types)]

\* SeaquestRelationshipAnalyzer.analyze_all_relationships; raised tells whether
\* the call ends in an exception
analyze_all_relationships(detected, addr) ==
    LET players == Get(detected, "player")
    IN  IF players = <<>>
          THEN [raised |-> FALSE, relationships |-> <<>>]
          ELSE [raised |-> FALSE,
                relationships |->
                    reference_relationships(players[1], addr)
                    \o relationships_with_types(players[1], detected, relevant_object_types)]

(***************************************************************************)
(* core/object_detector.py and env/seaquest/object_detector.py             *)
(***************************************************************************)

\* the keys of OBJECT_COLORS
OBJECT_COLORS == {"player", "diver", "background_water", "player_score", "oxygen_bar",
                  "lives", "logo", "player_missile", "oxygen_bar_depleted",
                  "oxygen_logo", "collected_diver", "enemy_missile", "submarine"}

\* the calls of find_objects made for one image, named by their color signature
\* and parameter set
FindKeys == <<"player", "diver", "collected_diver", "player_missile", "lives",
              "oxygen_bar", "submarine", "submarine_on_water", "enemy_missile",
              "enemy_green", "enemy_lightgreen", "enemy_pink", "enemy_orange_yellow">>

\* the region finder: a function of the image and the call
find_objects(img, k) == img[k]

\* for i, coords in enumerate(coords_list): GameObject(type, coords, f'{type}_{i}');
\* the label is the third positional argument, which is facing_side
make_objects(object_type, coords_list, addr) ==
    [i \in 1..Len(coords_list) |->
        GameObject(object_type, coords_list[i], <<object_type, i - 1>>, None,
                   addr + i - 1)]

\* BaseObjectDetector.detect_objects_by_type
detect_objects_by_type(img, object_type, addr) ==
    IF object_type \notin OBJECT_COLORS
      THEN <<>>
      ELSE make_objects(object_type, find_objects(img, object_type), addr)

\* BaseObjectDetector._objects_overlap
base_objects_overlap(obj1, obj2) ==
    /\ left(obj1) < right(obj2) /\ left(obj2) < right(obj1)
    /\ top(obj1) < bottom(obj2) /\ top(obj2) < bottom(obj1)

\* the corner test with the edges of obj2 excluded
seaquest_objects_overlap_mut(obj1, obj2) ==
    /\ left(obj1) > left(obj2) /\ left(obj1) < right(obj2)
    /\ top(obj1) > top(obj2) /\ top(obj1) < bottom(obj2)

\* SeaquestObjectDetector._objects_overlap
seaquest_objects_overlap(obj1, obj2) ==
    /\ left(obj1) >= left(obj2) /\ left(obj1) <= right(obj2)
    /\ top(obj1) >= top(obj2) /\ top(obj1) <= bottom(obj2)

\* self._objects_overlap: the method of the detector's class
objects_overlap(detector, obj1, obj2) ==
    IF detector = "seaquest" THEN seaquest_objects_overlap(obj1, obj2)
    ELSE base_objects_overlap(obj1, obj2)

\* filter_overlapping_objects testing the first object of objects2 only
filter_overlapping_objects_mut(detector, objects1, objects2) ==
    LET keep(obj1) ==
            ~ \E j \in 1..Len(objects2) : j = 1 /\ objects_overlap(detector, obj1, objects2[j])
    IN  SelectSeq(objects1, keep)

\* BaseObjectDetector.filter_overlapping_objects
filter_overlapping_objects(detector, objects1, objects2) ==
    LET keep(obj1) ==
            ~ \E j \in 1..Len(objects2) : objects_overlap(detector, obj1, objects2[j])
    IN  SelectSeq(objects1, keep)

\* SeaquestObjectDetector._detect_submarines
detect_submarines(img, addr) ==
    LET underwater == make_objects("enemy_submarine", find_objects(img, "submarine"), addr)
        surface_coords == find_objects(img, "submarine_on_water")
    IN  underwater \o
        [j \in 1..Len(surface_coords) |->
            GameObject("enemy_submarine", surface_coords[j],
                       <<"enemy_submarine", Len(underwater) + j - 1>>, None,
                       addr + Len(underwater) + j - 1)]

\* the last loop of _detect_enemy_missiles
RECURSIVE add_small_divers(_, _, _)
add_small_divers(enemy_missiles, divers, addr) ==
    IF divers = <<>> THEN enemy_missiles
    ELSE LET diver == Head(divers)
         IN  IF 6 <= diver.width /\ diver.width <= 8 /\ diver.height = 4
               THEN add_small_divers(
                        Append(enemy_missiles,
                               GameObject("enemy_missile", bounding_box(diver),
                                          <<"enemy_missile", Len(enemy_missiles)>>,
                                          None, addr)),
                        Tail(divers), addr + 1)
               ELSE add_small_divers(enemy_missiles, Tail(divers), addr)

\* SeaquestObjectDetector._detect_enemy_missiles
detect_enemy_missiles(img, divers, addr) ==
    LET candidates == make_objects("enemy_missile", find_objects(img, "enemy_missile"), addr)
        hits_diver(missile) ==
            \E j \in 1..Len(divers) : seaquest_objects_overlap(missile, divers[j])
        missiles_to_remove == SelectSeq(candidates, hits_diver)
        stays(missile) ==
            ~ \E j \in 1..Len(missiles_to_remove) : missiles_to_remove[j] = missile
        enemy_missiles == SelectSeq(candidates, stays)
    IN  add_small_divers(enemy_missiles, divers, addr + Len(candidates))

\* SeaquestObjectDetector._detect_enemies
detect_enemies(img, addr) ==
    make_objects("enemy",
                 find_objects(img, "enemy_green") \o find_objects(img, "enemy_lightgreen")
                 \o find_objects(img, "enemy_pink") \o find_objects(img, "enemy_orange_yellow"),
                 addr)

\* SeaquestObjectDetector._cleanup_detections
cleanup_detections(detected) ==
    IF Get(detected, "player") # <<>> /\ Get(detected, "player_missile") # <<>>
      THEN [detected EXCEPT !["player_missile"] =
               filter_overlapping_objects("seaquest", detected["player_missile"],
                                          detected["player"])]
      ELSE detected

\* the keys of detected_objects in insertion order
DetectedOrder == <<"player", "diver", "collected_diver", "player_missile", "lives",
                   "oxygen_bar", "oxygen_depleted", "enemy_submarine", "enemy_missile",
                   "enemy">>

DetectedTypes == {DetectedOrder[i] : i \in 1..Len(DetectedOrder)}

\* SeaquestObjectDetector.detect_all_objects; addr is the id of the first object
\* it creates, and every object created takes the next id
detect_all_objects(img, addr) ==
    LET player == detect_objects_by_type(img, "player", addr)
        a1 == addr + Len(player)
        diver == detect_objects_by_type(img, "diver", a1)
        a2 == a1 + Len(diver)
        collected_diver == detect_objects_by_type(img, "collected_diver", a2)
        a3 == a2 + Len(collected_diver)
        player_missile == detect_objects_by_type(img, "player_missile", a3)
        a4 == a3 + Len(player_missile)
        lives == detect_objects_by_type(img, "lives", a4)
        a5 == a4 + Len(lives)
        oxygen_bar == detect_objects_by_type(img, "oxygen_bar", a5)
        a6 == a5 + Len(oxygen_bar)
        oxygen_depleted == detect_objects_by_type(img, "oxygen_depleted", a6)
        a7 == a6 + Len(oxygen_depleted)
        enemy_submarine == detect_submarines(img, a7)
        a8 == a7 + Len(enemy_submarine)
        enemy_missile == detect_enemy_missiles(img, diver, a8)
        a9 == a8 + Len(find_objects(img, "enemy_missile")) + Len(diver)
        enemy == detect_enemies(img, a9)
    IN  cleanup_detections(
            [t \in DetectedTypes |->
                CASE t = "player" -> player
                  [] t = "diver" -> diver
                  [] t = "collected_diver" -> collected_diver
                  [] t = "player_missile" -> player_missile
                  [] t = "lives" -> lives
                  [] t = "oxygen_bar" -> oxygen_bar
                  [] t = "oxygen_depleted" -> oxygen_depleted
                  [] t = "enemy_submarine" -> enemy_submarine
                  [] t = "enemy_missile" -> enemy_missile
                  [] t = "enemy" -> enemy])

\* the number of GameObjects detect_all_objects creates
RECURSIVE TotalLen(_, _)
TotalLen(img, keys) ==
    IF keys = <<>> THEN 0 ELSE Len(img[Head(keys)]) + TotalLen(img, Tail(keys))

objects_created(img) == TotalLen(img, FindKeys) + Len(img["diver"])

RECURSIVE object_ids(_, _)
object_ids(detected, types) ==
    IF types = <<>> THEN <<>>
    ELSE [i \in 1..Len(detected[Head(types)]) |-> detected[Head(types)][i].object_id]
         \o object_ids(detected, Tail(types))

\* BaseObjectDetector.get_all_objects_as_list
get_all_objects_as_list(detected) == object_ids(detected, DetectedOrder)

\* SeaquestGameConfig.get_object_types
get_object_types == <<"player", "diver", "collected_diver", "player_missile",
                      "enemy_missile", "lives", "enemy_submarine", "oxygen_bar",
                      "oxygen_depleted", "enemy">>

\* detect_objects_by_type without its first two lines: object_colors[object_type]
\* raises KeyError for a type that has no color signature
detect_objects_by_type_call_mut(img, object_type, addr) ==
    IF object_type \notin OBJECT_COLORS
      THEN [raised |-> TRUE, finder_calls |-> <<>>, objects |-> <<>>]
      ELSE [raised |-> FALSE, finder_calls |-> <<object_type>>,
            objects |-> make_objects(object_type, find_objects(img, object_type), addr)]

\* BaseObjectDetector.detect_objects_by_type as a call: whether it raised, the
\* calls of find_objects it made, and the list it returned
detect_objects_by_type_call(img, object_type, addr) ==
    IF object_type \notin OBJECT_COLORS
      THEN [raised |-> FALSE, finder_calls |-> <<>>, objects |-> <<>>]
      ELSE [raised |-> FALSE, finder_calls |-> <<object_type>>,
            objects |-> make_objects(object_type, find_objects(img, object_type), addr)]

\* the loop of BaseObjectDetector.detect_all_objects
RECURSIVE detect_types(_, _, _, _)
detect_types(img, types, addr, acc) ==
    IF types = <<>> \/ acc.raised THEN acc
    ELSE LET r == detect_objects_by_type_call(img, Head(types), addr)
         IN  detect_types(img, Tail(types), addr + Len(r.objects),
                 [raised |-> r.raised,
                  finder_calls |-> acc.finder_calls \o r.finder_calls,
                  detected |-> IF r.raised THEN acc.detected
                               ELSE [t \in DOMAIN acc.detected \cup {Head(types)} |->
                                        IF t = Head(types) THEN r.objects
                                        ELSE acc.detected[t]]])

\* BaseObjectDetector.detect_all_objects
base_detect_all_objects(img, addr) ==
    detect_types(img, get_object_types, addr,
                 [raised |-> FALSE, finder_calls |-> <<>>, detected |-> [t \in {} |-> <<>>]])

(***************************************************************************)
(* core/gaze_data_processor.py.  A line of the log is the sequence of its  *)
(* comma-separated fields, parts = line.strip().split(','); a field is a   *)
(* pair <<kind, value>>: <<"int", n>> is the decimal integer n, <<"dec", t>>*)
(* the decimal number t/10 written with one fractional digit, <<"inf", 0>> *)
(* and <<"nan", 0>> the texts 'inf' and 'nan', and <<"str", s>> any other  *)
(* text s.  A float is <<"fin", t>> (the number t/10), <<"inf", 0>> or     *)
(* <<"nan", 0>>.  A text built by join is the sequence of its pieces.      *)
(***************************************************************************)
\* float(field): the float, or <<"ValueError", 0>>
py_float(field) ==
    CASE field[1] = "int" -> <<"fin", 10 * field[2]>>
      [] field[1] = "dec" -> <<"fin", field[2]>>
      [] field[1] = "inf" -> <<"inf", 0>>
      [] field[1] = "nan" -> <<"nan", 0>>
      [] OTHER -> <<"ValueError", 0>>

\* int(field) of a text: only an integer literal converts
py_int(field) ==
    IF field[1] = "int" THEN <<"ok", field[2]>> ELSE <<"ValueError", 0>>

\* int of a float rounding down instead of toward zero
int_of_float_mut(x) ==
    CASE x[1] = "fin" -> <<"ok", x[2] \div 10>>
      [] x[1] = "inf" -> <<"OverflowError", 0>>
      [] OTHER -> <<"ValueError", 0>>

\* int(x) of a float: truncation toward zero; int(inf) raises OverflowError and
\* int(nan) raises ValueError
int_of_float(x) ==
    CASE x[1] = "fin" -> <<"ok", IF x[2] >= 0 THEN x[2] \div 10 ELSE -((-x[2]) \div 10)>>
      [] x[1] = "inf" -> <<"OverflowError", 0>>
      [] OTHER -> <<"ValueError", 0>>

NoRow == <<>>

\* what a call of _parse_gaze_line ends with: a dictionary, None, or an exception
\* that leaves the method; warned tells whether a warning was printed
Parsed(row) == [result |-> "row", warned |-> FALSE, error |-> "", row |-> row]

\* a skip that prints nothing
Skipped_mut(warned) == [result |-> "None", warned |-> FALSE, error |-> "", row |-> NoRow]

Skipped(warned) == [result |-> "None", warned |-> warned, error |-> "", row |-> NoRow]

Raised(error) == [result |-> "raise", warned |-> FALSE, error |-> error, row |-> NoRow]

\* GazeDataProcessor._parse_gaze_line; parts[k] is the k-th field
parse_gaze_line(parts) ==
    IF Len(parts) <= 7 THEN Skipped(FALSE)
    ELSE
      LET duration == py_float(parts[4])
          unclipped_reward == py_float(parts[5])
          action == py_int(parts[6])
          gaze_positions == SubSeq(parts, 7, Len(parts))
          floats == [i \in 1..Len(gaze_positions) |-> py_float(gaze_positions[i])]
          ints == [i \in 1..Len(floats) |-> int_of_float(floats[i])]
          failing == {i \in 1..Len(ints) : ints[i][1] # "ok"}
          first == CHOOSE i \in failing : \A j \in failing : i <= j
      IN  IF duration[1] = "ValueError" THEN Raised("ValueError")
          ELSE IF unclipped_reward[1] = "ValueError" THEN Raised("ValueError")
          ELSE IF action[1] = "ValueError" THEN Raised("ValueError")
          ELSE IF Len(gaze_positions) % 2 # 0 THEN Skipped(TRUE)
          ELSE IF \E i \in 1..Len(floats) : floats[i][1] = "ValueError" THEN Skipped(TRUE)
          ELSE IF failing # {}
            THEN (IF ints[first][1] = "ValueError" THEN Skipped(TRUE)
                  ELSE Raised(ints[first][1]))
          ELSE Parsed([frameid |-> parts[1],
                       episode_id |-> parts[2],
                       score |-> parts[3],
                       duration |-> duration,
                       unclipped_reward |-> unclipped_reward,
                       action |-> action[2],
                       gaze_positions |->
                           [k \in 1..(Len(ints) \div 2) |->
                               <<ints[2 * k - 1][2], ints[2 * k][2]>>],
                       objects |-> <<>>,
                       relationships |-> <<>>])

\* the loop of load_gaze_data over the lines not read yet
RECURSIVE load_lines(_, _)
load_lines(lines, gaze_info) ==
    IF lines = <<>> THEN [error |-> "", table |-> gaze_info]
    ELSE LET parsed_line == parse_gaze_line(Head(lines))
         IN  CASE parsed_line.result = "raise" ->
                      [error |-> parsed_line.error, table |-> <<>>]
               [] parsed_line.result = "row" ->
                      load_lines(Tail(lines), Append(gaze_info, parsed_line.row))
               [] OTHER -> load_lines(Tail(lines), gaze_info)

\* GazeDataProcessor.load_gaze_data on an existing file with these lines
load_gaze_data(lines) == load_lines(lines, <<>>)

\* the delimiter ' , '
DELIM == <<" , ">>

\* " , ".join(list)
RECURSIVE sep_join(_)
sep_join(list) ==
    IF list = <<>> THEN <<>>
    ELSE IF Len(list) = 1 THEN <<list[1]>>
    ELSE <<list[1], DELIM>> \o sep_join(Tail(list))

\* update_frame_data setting the cells of every row
update_frame_data_mut(df, frame_id, object_ids_list, relationships_text) ==
    IF df = <<>> THEN df
    ELSE IF ~ \E i \in 1..Len(df) : df[i].frameid = frame_id THEN df
    ELSE LET objects_text ==
                 IF object_ids_list # <<>> THEN sep_join(object_ids_list) \o <<DELIM>> ELSE <<>>
         IN  [i \in 1..Len(df) |->
                 [df[i] EXCEPT !.objects = objects_text,
                               !.relationships = relationships_text]]

\* GazeDataProcessor.update_frame_data: the table after the call
update_frame_data(df, frame_id, object_ids_list, relationships_text) ==
    IF df = <<>> THEN df
    ELSE IF ~ \E i \in 1..Len(df) : df[i].frameid = frame_id THEN df
    ELSE LET objects_text ==
                 IF object_ids_list # <<>> THEN sep_join(object_ids_list) \o <<DELIM>> ELSE <<>>
         IN  [i \in 1..Len(df) |->
                 IF df[i].frameid = frame_id
                   THEN [df[i] EXCEPT !.objects = objects_text,
                                      !.relationships = relationships_text]
                   ELSE df[i]]

\* the columns of the table, in the order of the keys of the dictionary
COLUMNS == <<"frameid", "episode_id", "score", "duration", "unclipped_reward", "action",
             "gaze_positions", "objects", "relationships">>

NotGazePositions(column) == column # "gaze_positions"

\* the rows of a table restricted to the given columns, each a sequence of cells
cells(df, columns) ==
    [i \in 1..Len(df) |-> [j \in 1..Len(columns) |-> df[i][columns[j]]]]

\* save_updated_gaze_data dropping the column of the table itself
save_updated_gaze_data_mut(df) ==
    LET columns == IF df = <<>> THEN <<>> ELSE SelectSeq(COLUMNS, NotGazePositions)
    IN  [gaze_df |-> [i \in 1..Len(df) |->
                         [c \in DOMAIN df[i] \ {"gaze_positions"} |-> df[i][c]]],
         file |-> [columns |-> columns, rows |-> cells(df, columns)]]

\* GazeDataProcessor.save_updated_gaze_data: the table after the call and the
\* file written by to_csv, as its header and its rows of cells
save_updated_gaze_data(df) ==
    LET columns == IF df = <<>> THEN <<>> ELSE SelectSeq(COLUMNS, NotGazePositions)
    IN  [gaze_df |-> df,
         file |-> [columns |-> columns, rows |-> cells(df, columns)]]

\* a path is the sequence of its pieces; '.txt' is a piece and no other piece
\* holds it
RECURSIVE replace_txt(_)
replace_txt(path) ==
    IF path = <<>> THEN <<>>
    ELSE (IF Head(path) = ".txt" THEN <<"_with_relationships", ".txt">> ELSE <<Head(path)>>)
         \o replace_txt(Tail(path))

\* new_path = original_path.replace(".txt", "_with_relationships.txt"), which
\* replaces every occurrence
new_path(original_path) == replace_txt(original_path)

(***************************************************************************)
(* main.py.  A file name is the sequence of its pieces: an extension such  *)
(* as '.png' is one piece, '_' is one piece, and the text between them is  *)
(* one piece.                                                              *)
(***************************************************************************)
valid_extensions == {".png", ".jpg", ".jpeg"}

\* the pieces that begin with '.', and the pieces int() converts
DotPieces == {".png", ".jpg", ".jpeg", ".txt"}

Digits == [t \in {"2", "10"} |-> IF t = "2" THEN 2 ELSE 10]

\* the order of the pieces as texts: '.' < digits < '_' < letters
PieceRank ==
    [t \in {".jpeg", ".jpg", ".png", ".txt", "10", "2", "_", "f", "g", "notes", "x"} |->
        CASE t = ".jpeg" -> 1 [] t = ".jpg" -> 2 [] t = ".png" -> 3 [] t = ".txt" -> 4
          [] t = "10" -> 5 [] t = "2" -> 6 [] t = "_" -> 7 [] t = "f" -> 8
          [] t = "g" -> 9 [] t = "notes" -> 10 [] OTHER -> 11]

\* img.lower().endswith(valid_extensions)
is_image(img) == img # <<>> /\ img[Len(img)] \in valid_extensions

\* x.split('_')[-1]
last_part(x) ==
    LET at == {i \in 1..Len(x) : x[i] = "_"}
    IN  IF at = {} THEN x
        ELSE SubSeq(x, (CHOOSE i \in at : \A j \in at : j <= i) + 1, Len(x))

\* t.split('.')[0]
before_dot(t) ==
    LET at == {i \in 1..Len(t) : t[i] \in DotPieces}
    IN  IF at = {} THEN t
        ELSE SubSeq(t, 1, (CHOOSE i \in at : \A j \in at : i <= j) - 1)

\* int(text) of a text given by its pieces
int_of_text(t) ==
    IF Len(t) = 1 /\ t[1] \in DOMAIN Digits THEN <<"ok", Digits[t[1]]>>
    ELSE <<"ValueError", 0>>

\* the key of the sort: int(x.split('_')[-1].split('.')[0])
sort_key(x) == int_of_text(before_dot(last_part(x)))

\* a < b for two names as Python compares strings; the names of the model
\* differ first at the start of a piece
RECURSIVE name_less(_, _)
name_less(a, b) ==
    IF a = <<>> THEN b # <<>>
    ELSE IF b = <<>> THEN FALSE
    ELSE IF Head(a) = Head(b) THEN name_less(Tail(a), Tail(b))
    ELSE PieceRank[Head(a)] < PieceRank[Head(b)]

\* sorted is stable: x goes behind the elements that do not exceed it
RECURSIVE insert_by_key(_, _)
insert_by_key(list, x) ==
    IF list = <<>> THEN <<x>>
    ELSE IF sort_key(x)[2] < sort_key(Head(list))[2] THEN <<x>> \o list
    ELSE <<Head(list)>> \o insert_by_key(Tail(list), x)

RECURSIVE sorted_by_key(_)
sorted_by_key(list) ==
    IF list = <<>> THEN <<>>
    ELSE insert_by_key(sorted_by_key(SubSeq(list, 1, Len(list) - 1)), list[Len(list)])

RECURSIVE insert_by_name(_, _)
insert_by_name(list, x) ==
    IF list = <<>> THEN <<x>>
    ELSE IF name_less(x, Head(list)) THEN <<x>> \o list
    ELSE <<Head(list)>> \o insert_by_name(Tail(list), x)

RECURSIVE sorted_by_name(_)
sorted_by_name(list) ==
    IF list = <<>> THEN <<>>
    ELSE insert_by_name(sorted_by_name(SubSeq(list, 1, Len(list) - 1)), list[Len(list)])

\* _get_sorted_images leaving the images in the order of os.listdir
get_sorted_images_mut(listing) == SelectSeq(listing, is_image)

\* GameAnalysisApp._get_sorted_images: the keys of all the names are computed
\* first, and a ValueError of any of them selects the alphabetical order
get_sorted_images(listing) ==
    LET images_found == SelectSeq(listing, is_image)
    IN  IF \A i \in 1..Len(images_found) : sort_key(images_found[i])[1] = "ok"
          THEN sorted_by_key(images_found)
          ELSE sorted_by_name(images_found)

NotExtension(piece) == piece \notin valid_extensions

\* frame_id = img_name.replace('.png', '').replace('.jpg', '').replace('.jpeg', ''),
\* as the text of a field of the log
frame_id_of(img_name) == <<"str", SelectSeq(img_name, NotExtension)>>

\* text_file_path = image_folder + ".txt"
text_file_path_of(image_folder) == image_folder \o <<".txt">>

\* lines 57-62 of run with FileNotFoundError leaving run
load_or_continue_mut(log_exists, lines) ==
    IF ~log_exists THEN [error |-> "FileNotFoundError", table |-> <<>>, warned |-> FALSE]
    ELSE LET r == load_gaze_data(lines)
         IN  [error |-> r.error, table |-> r.table, warned |-> FALSE]

\* lines 57-62 of run: load_gaze_data inside try; FileNotFoundError is caught,
\* a warning is printed and the table is empty; any other exception leaves run
load_or_continue(log_exists, lines) ==
    IF ~log_exists THEN [error |-> "", table |-> <<>>, warned |-> TRUE]
    ELSE LET r == load_gaze_data(lines)
         IN  [error |-> r.error, table |-> r.table, warned |-> FALSE]

\* the object types that contain one of 'water', 'surface', 'ground', 'ceiling'
has_level_word(object_type) == object_type \in {"water_surface"}

\* format_relationships_for_dataframe writing both arguments for every fact
format_relationships_for_dataframe_mut(rels) ==
    LET formatted_relationships ==
            [i \in 1..Len(rels) |->
                <<"rel", rels[i].relationship_type, rels[i].obj1.object_type,
                  rels[i].obj2.object_id>>]
    IN  IF formatted_relationships # <<>>
          THEN sep_join(formatted_relationships) \o <<DELIM>>
          ELSE <<>>

\* BaseRelationshipAnalyzer.format_relationships_for_dataframe; a token
\* rel_type(obj1_type) is <<"rel", rel_type, obj1_type>> and a token
\* rel_type(obj1_type,obj2_id) is <<"rel", rel_type, obj1_type, obj2_id>>
format_relationships_for_dataframe(rels) ==
    LET formatted_relationships ==
            [i \in 1..Len(rels) |->
                IF has_level_word(rels[i].obj2.object_type)
                  THEN <<"rel", rels[i].relationship_type, rels[i].obj1.object_type>>
                  ELSE <<"rel", rels[i].relationship_type, rels[i].obj1.object_type,
                         rels[i].obj2.object_id>>]
    IN  IF formatted_relationships # <<>>
          THEN sep_join(formatted_relationships) \o <<DELIM>>
          ELSE <<>>

(***************************************************************************)
(* Inputs of the frame scenarios.                                          *)
(***************************************************************************)

\* the boxes the region finder may return: a box above the water line, a
\* diver-shaped box on it, a box below it, and a small box whose corner lies
\* inside the first one
FrameBoxes == {<<10, WATER_SURFACE_Y - 1, 8, 10>>, <<30, WATER_SURFACE_Y, 7, 4>>,
               <<30, WATER_SURFACE_Y + 13, 8, 10>>, <<12, WATER_SURFACE_Y + 3, 7, 4>>}

AllKeys == 1..Len(FindKeys)

\* player, diver, enemy_missile and enemy_green
FewKeys == {1, 2, 9, 10}

\* an image is given by the list of its regions, each found by one call of
\* find_objects; the list is ordered by call
RegionLists(keys) ==
    {L \in UNION {[1..m -> keys \X FrameBoxes] : m \in 0..MaxRegions} :
        \A i \in 1..Len(L) - 1 : L[i][1] <= L[i + 1][1]}

RECURSIVE BoxesOf(_, _)
BoxesOf(L, k) ==
    IF L = <<>> THEN <<>>
    ELSE (IF Head(L)[1] = k THEN <<Head(L)[2]>> ELSE <<>>) \o BoxesOf(Tail(L), k)

ImageOf(L) ==
    [name \in {FindKeys[k] : k \in AllKeys} |->
        BoxesOf(L, CHOOSE k \in AllKeys : FindKeys[k] = name)]

Images(keys) == {ImageOf(L) : L \in RegionLists(keys)}

\* the calls for diver and enemy_missile
MissileKeys == {2, 9}

\* the boxes of the missile scenario: those of FrameBoxes and a small box whose
\* corner is the bottom-right corner of the first one
MissileBoxes == FrameBoxes \cup {<<18, WATER_SURFACE_Y + 9, 7, 4>>}

MissileImages ==
    {ImageOf(L) :
        L \in {M \in UNION {[1..m -> MissileKeys \X MissileBoxes] :
                                m \in 0..MaxMissileRegions} :
                  \A i \in 1..Len(M) - 1 : M[i][1] <= M[i + 1][1]}}

NoImage == ImageOf(<<>>)

NoObjects == [t \in DetectedTypes |-> <<>>]

\* the facts given to create_connection_list on its own
PoolPlayer == GameObject("player", <<10, WATER_SURFACE_Y - 1, 8, 10>>, <<"player", 0>>,
                         None, AddrBase)

PoolEnemy0 == GameObject("enemy", <<30, WATER_SURFACE_Y + 13, 8, 10>>, <<"enemy", 0>>,
                         None, AddrBase + 1)

PoolEnemy1 == GameObject("enemy", <<30, WATER_SURFACE_Y + 13, 8, 10>>, <<"enemy", 1>>,
                         None, AddrBase + 2)

PoolReference == GameObject("water_surface", <<0, WATER_SURFACE_Y, REF_WIDTH, REF_HEIGHT>>,
                            <<"water_surface">>, None, AddrBase + 3)

Facts == {SpatialRelationship(o1, o2, t) :
             o1 \in {PoolPlayer, PoolEnemy0},
             o2 \in {PoolEnemy0, PoolEnemy1, PoolReference},
             t \in {"leftOf", "aboveOf", "belowWater_surface"}}

FactLists == UNION {[1..m -> Facts] : m \in 0..MaxFacts}

NoCall == [op |-> "none"]

NoFolder == [exists |-> FALSE, log_exists |-> FALSE, listing |-> <<>>, unreadable |-> {}]

\* the variables of the run scenario while another one runs
IdleRun ==
    /\ folder = NoFolder /\ fps = 1 /\ images = <<>> /\ processed = <<>>
    /\ diagnostics = <<>> /\ run_error = "" /\ text_file_path = <<>>

\* the line of the specification's example, 'f1,e1,10,0.5,1.0,3,5,6,7,8'
ExampleLine ==
    << <<"str", "f1">>, <<"str", "e1">>, <<"int", 10>>, <<"dec", 5>>, <<"dec", 10>>,
       <<"int", 3>>, <<"int", 5>>, <<"int", 6>>, <<"int", 7>>, <<"int", 8>> >>

\* the texts a coordinate field may hold: 5, 5.7, -5.7, -0.3, abc, nan, inf
CoordFields == {<<"int", 5>>, <<"dec", 57>>, <<"dec", -57>>, <<"dec", -3>>,
                <<"str", "abc">>, <<"nan", 0>>, <<"inf", 0>>}

\* the lines given to _parse_gaze_line on its own: duration 0.5 or abc, action
\* 3, 3.0 or abc, and up to MaxCoords coordinate fields
ParseLines ==
    {ExampleLine} \cup
    {<< <<"str", "f1">>, <<"str", "e1">>, <<"int", 10>>, duration, <<"dec", 10>>, action >>
       \o coords :
         duration \in {<<"dec", 5>>, <<"str", "abc">>},
         action \in {<<"int", 3>>, <<"dec", 30>>, <<"str", "abc">>},
         coords \in UNION {[1..m -> CoordFields] : m \in 0..MaxCoords}}

\* the first six fields of a well-formed line of frame f with score n
Prefix(f, n) ==
    << <<"str", f>>, <<"str", "e1">>, <<"int", n>>, <<"dec", 5>>, <<"dec", 10>>,
       <<"int", 3>> >>

\* the lines of the log files: the example, a line of another frame, a second
\* line of frame f1, and lines with seven fields, with an odd number of
\* coordinates, with a coordinate abc, with a duration abc and with a
\* coordinate inf
PoolLines ==
    {ExampleLine,
     Prefix("f2", 10) \o << <<"dec", -57>>, <<"dec", 62>> >>,
     Prefix("f1", 20) \o << <<"int", 1>>, <<"int", 1>> >>,
     Prefix("f3", 10) \o << <<"int", 5>> >>,
     Prefix("f3", 10) \o << <<"int", 5>>, <<"int", 6>>, <<"int", 7>> >>,
     Prefix("f3", 10) \o << <<"int", 5>>, <<"str", "abc">> >>,
     << <<"str", "f3">>, <<"str", "e1">>, <<"int", 10>>, <<"str", "abc">>, <<"dec", 10>>,
        <<"int", 3>>, <<"int", 5>>, <<"int", 6>> >>,
     Prefix("f3", 10) \o << <<"inf", 0>>, <<"int", 6>> >>}

\* the pieces of the paths given to save_updated_gaze_data
PathPieces == {"runs/", "ep", ".txt", "_1"}

Paths == UNION {[1..m -> PathPieces] : m \in 0..MaxPathLen}

\* the folder given to run and the names os.listdir may return
ImageFolder == <<"runs/", "ep">>

RunNames == {<<"f", "_", "2", ".png">>, <<"f", "_", "10", ".png">>, <<"g", "_", "2", ".png">>,
             <<"f", "_", "x", ".png">>, <<"notes", ".txt">>}

\* os.listdir returns the names in an arbitrary order
Listings ==
    {L \in UNION {[1..m -> RunNames] : m \in 0..MaxImages} :
        \A i, j \in 1..Len(L) : i # j => L[i] # L[j]}

Range(list) == {list[i] : i \in 1..Len(list)}

\* a folder that does not exist, and the folders that do, with or without a log
\* beside them and with some images that cv2.imread cannot read
Folders ==
    {[NoFolder EXCEPT !.log_exists = l] : l \in BOOLEAN} \cup
    UNION {{[exists |-> TRUE, log_exists |-> l, listing |-> L, unreadable |-> U] :
               l \in BOOLEAN, U \in SUBSET {n \in Range(L) : is_image(n)}} : L \in Listings}

\* the logs beside the folder: no line, a line of frame f_2, lines of the
\* frames f_2 and f_10, and a line with a duration abc
RunLogs ==
    {<<>>,
     << Prefix(<<"f", "_", "2">>, 10) \o << <<"int", 5>>, <<"int", 6>> >> >>,
     << Prefix(<<"f", "_", "2">>, 10) \o << <<"int", 5>>, <<"int", 6>> >>,
        Prefix(<<"f", "_", "10">>, 20) \o << <<"int", 7>>, <<"int", 8>> >> >>,
     << << <<"str", <<"f", "_", "2">> >>, <<"str", "e1">>, <<"int", 10>>, <<"str", "abc">>,
           <<"dec", 10>>, <<"int", 3>>, <<"int", 5>>, <<"int", 6>> >> >>}

LogFiles == UNION {[1..m -> PoolLines] : m \in 0..MaxLines}

\* the frame ids given to update_frame_data: two of the log and one that no
\* line has
FrameIds == {<<"str", "f1">>, <<"str", "f2">>, <<"str", "f9">>}

\* the frames whose objects and relationships are given to update_frame_data:
\* an empty frame, a frame with a player, and a frame with a player and an enemy
GazeFrames ==
    {NoImage,
     ImageOf(<< <<1, <<10, WATER_SURFACE_Y - 1, 8, 10>> >> >>),
     ImageOf(<< <<1, <<10, WATER_SURFACE_Y - 1, 8, 10>> >>,
                <<10, <<30, WATER_SURFACE_Y + 13, 8, 10>> >> >>)}

\* player, diver, player_missile, submarine, enemy_missile and enemy_green
OrderKeys == {1, 2, 4, 7, 9, 10}

\* the images whose relationship list is examined for its order
OrderImages ==
    {ImageOf(L) :
        L \in {M \in UNION {[1..m -> OrderKeys \X FrameBoxes] : m \in 0..MaxOrderRegions} :
                  \A i \in 1..Len(M) - 1 : M[i][1] <= M[i + 1][1]}}

\* a player box, and boxes that cross its left edge, that start inside it, that
\* touch its right edge, and that lie away from it
FilterBoxes == {<<10, 46, 8, 10>>, <<8, 50, 12, 1>>, <<12, 50, 8, 1>>, <<18, 50, 8, 1>>,
                <<30, 50, 8, 1>>}

\* player and player_missile
FilterKeys == {1, 4}

\* the images given to the filter of overlapping objects
FilterImages ==
    {ImageOf(L) :
        L \in {M \in UNION {[1..m -> FilterKeys \X FilterBoxes] : m \in 0..MaxFilterRegions} :
                  \A i \in 1..Len(M) - 1 : M[i][1] <= M[i + 1][1]}}

\* what cv2.imread returns for the readable images of a run: an empty frame or
\* a frame with a player and an enemy
RunFrames ==
    {NoImage,
     ImageOf(<< <<1, <<10, WATER_SURFACE_Y - 1, 8, 10>> >>,
                <<10, <<30, WATER_SURFACE_Y + 13, 8, 10>> >> >>)}

\* objects_list and relationships of _process_single_image for these frames
UpdateInputs ==
    {LET detected == detect_all_objects(img, AddrBase)
     IN  [objects_list |-> get_all_objects_as_list(detected),
          relationships |->
              analyze_all_relationships(detected, AddrBase + objects_created(img)).relationships] :
       img \in GazeFrames}

\* the variables of the detector-call and gaze scenarios while another one runs
IdleIo ==
    /\ call = NoCall /\ log_lines = <<>> /\ gaze_df = <<>> /\ load_error = ""
    /\ updates = <<>> /\ saved = None

\* the variables of the frame scenarios while the pair scenario runs
IdleFrame ==
    /\ frame = 1 /\ image = NoImage /\ heap = AddrBase
    /\ detected_objects = NoObjects /\ relationships = <<>> /\ connection_list = <<>>
    /\ analysisError = FALSE /\ objects_list = <<>> /\ key = 0
    /\ pass = 1 /\ firstPass = <<>>

(***************************************************************************)
(* Pair scenario: the predicates and _analyze_object_relationships applied *)
(* to one pair of boxes.                                                   *)
(***************************************************************************)
PairBoxes == {<<x, y, w, h>> : x \in 0..MaxX, y \in 0..MaxY, w \in 0..MaxW, h \in 0..MaxH}

\* thresholds tried besides the default: 0, 1/4, 1 and 2
Taus == {MIN_COVERAGE_RATIO, <<0, 1>>, <<1, 4>>, <<1, 1>>, <<2, 1>>}

NoPreds == [evaluated |-> FALSE]

\* the variables of the pair scenario while another scenario runs
IdlePair ==
    /\ objA = None /\ objB = None /\ tau = MIN_COVERAGE_RATIO
    /\ pairRels = <<>> /\ preds = NoPreds /\ swapRels = <<>>

InitPair ==
    /\ pc = "pair"
    /\ \E b1 \in PairBoxes, b2 \in PairBoxes :
          /\ objA = GameObject("player", b1, <<"player", 0>>, None, AddrBase)
          /\ objB = GameObject("enemy", b2, <<"enemy", 0>>, None, AddrBase + 1)
    /\ tau = MIN_COVERAGE_RATIO
    /\ pairRels = <<>>
    /\ preds = NoPreds
    /\ swapRels = <<>>
    /\ IdleFrame
    /\ IdleIo
    /\ IdleRun

\* relationships = self._analyze_object_relationships(obj1, obj2)
AnalyzePair ==
    /\ pc = "pair"
    /\ pairRels' = analyze_object_relationships(objA, objB)
    /\ pc' = "pair_analyzed"
    /\ UNCHANGED <<objA, objB, tau, preds, swapRels, frameVars, ioVars, runVars>>

\* the five predicates called on (objA, objB), the vertical ones with min_coverage = t
EvalPredicates ==
    /\ pc = "pair_analyzed"
    /\ \E t \in Taus :
          /\ tau' = t
          /\ preds' = [evaluated  |-> TRUE,
                       left_of    |-> left_of(objA, objB),
                       right_of   |-> right_of(objA, objB),
                       above_of   |-> above_of(objA, objB, t),
                       below_of   |-> below_of(objA, objB, t),
                       same_level_of |-> same_level_of(objA, objB, t)]
    /\ pc' = "pair_evaluated"
    /\ UNCHANGED <<objA, objB, pairRels, swapRels, frameVars, ioVars, runVars>>

\* SpatialRelationship(a, b, t) and SpatialRelationship(b, a, t)
SwapPair ==
    /\ pc = "pair_evaluated"
    /\ \E t \in {"leftOf", "aboveOf"} :
          swapRels' = <<SpatialRelationship(objA, objB, t),
                        SpatialRelationship(objB, objA, t)>>
    /\ pc' = "pair_done"
    /\ UNCHANGED <<objA, objB, tau, pairRels, preds, frameVars, ioVars, runVars>>

NextPair == AnalyzePair \/ EvalPredicates \/ SwapPair

SpecPair == InitPair /\ [][NextPair]_vars

(***************************************************************************)
(* Frame scenario: the loop of GameAnalysisApp.run over the images, each   *)
(* processed by _process_single_image.                                     *)
(***************************************************************************)
InitFrame ==
    /\ pc = "load"
    /\ IdlePair
    /\ IdleRun
    /\ IdleIo
    /\ IdleFrame

\* image = cv2.imread(img_path), a readable image
LoadImage ==
    /\ pc = "load"
    /\ frame <= MaxFrames
    /\ \E img \in Images(AllKeys) : image' = img
    /\ pc' = "detect"
    /\ UNCHANGED <<pairVars, runVars, ioVars, frame, heap, detected_objects, relationships, connection_list,
                   analysisError, objects_list, key, pass, firstPass>>

\* image is None: "Failed to load image", return; the loop goes to the next image
SkipImage ==
    /\ pc = "load"
    /\ frame <= MaxFrames
    /\ frame' = frame + 1
    /\ UNCHANGED <<pc, pairVars, runVars, ioVars, image, heap, detected_objects, relationships,
                   connection_list, analysisError, objects_list, key, pass, firstPass>>

\* detected_objects = self.object_detector.detect_all_objects(image); the
\* allocator places the new objects at an address of its choice
Detect ==
    /\ pc = "detect"
    /\ \E base \in {AddrBase, AddrBase + AddrStride} :
          /\ detected_objects' = detect_all_objects(image, base)
          /\ heap' = base + objects_created(image)
    /\ pc' = "analyze"
    /\ UNCHANGED <<pairVars, runVars, ioVars, frame, image, relationships, connection_list, analysisError,
                   objects_list, key, pass, firstPass>>

\* relationships = self.relationship_analyzer.analyze_all_relationships(detected_objects)
\* inside try; an exception ends in the except branch, which empties both lists
Analyze ==
    /\ pc = "analyze"
    /\ LET result == analyze_all_relationships(detected_objects, heap)
       IN  IF result.raised
             THEN /\ relationships' = <<>>
                  /\ connection_list' = <<>>
                  /\ analysisError' = TRUE
                  /\ pc' = "update"
                  /\ heap' = heap
             ELSE /\ relationships' = result.relationships
                  /\ connection_list' = connection_list
                  /\ analysisError' = FALSE
                  /\ pc' = "connect"
                  /\ heap' = heap + Len(reference_levels)
    /\ UNCHANGED <<pairVars, runVars, ioVars, frame, image, detected_objects, objects_list, key, pass,
                   firstPass>>

\* connection_list = self.relationship_analyzer.create_connection_list(relationships)
Connect ==
    /\ pc = "connect"
    /\ connection_list' = create_connection_list(relationships)
    /\ pc' = "update"
    /\ UNCHANGED <<pairVars, runVars, ioVars, frame, image, heap, detected_objects, relationships,
                   analysisError, objects_list, key, pass, firstPass>>

\* objects_list = self.object_detector.get_all_objects_as_list(detected_objects),
\* the list handed to update_frame_data
ListObjects ==
    /\ pc = "update"
    /\ objects_list' = get_all_objects_as_list(detected_objects)
    /\ pc' = "display"
    /\ UNCHANGED <<pairVars, runVars, ioVars, frame, image, heap, detected_objects, relationships,
                   connection_list, analysisError, key, pass, firstPass>>

\* key = self.visualizer.display_image(...); ESC raises KeyboardInterrupt, which
\* nothing in run catches; any other key lets the loop take the next image
Display ==
    /\ pc = "display"
    /\ \E k \in {ESC_KEY, ESC_KEY + 5} :
          /\ key' = k
          /\ IF k = ESC_KEY
               THEN /\ pc' = "interrupted"
                    /\ UNCHANGED <<frame, image, heap, detected_objects, relationships,
                                   connection_list, analysisError, objects_list>>
               ELSE /\ pc' = "load"
                    /\ frame' = frame + 1
                    /\ image' = NoImage
                    /\ heap' = AddrBase
                    /\ detected_objects' = NoObjects
                    /\ relationships' = <<>>
                    /\ connection_list' = <<>>
                    /\ analysisError' = FALSE
                    /\ objects_list' = <<>>
    /\ UNCHANGED <<pairVars, runVars, ioVars, pass, firstPass>>

NextFrame == LoadImage \/ SkipImage \/ Detect \/ Analyze \/ Connect \/ ListObjects \/ Display

SpecFrame == InitFrame /\ [][NextFrame]_vars

(***************************************************************************)
(* Two passes of detection, analysis and connection over the same image.   *)
(***************************************************************************)
InitTwice ==
    /\ pc = "detect"
    /\ IdlePair
    /\ IdleRun
    /\ IdleIo
    /\ frame = 1 /\ heap = AddrBase
    /\ image \in Images(FewKeys)
    /\ detected_objects = NoObjects /\ relationships = <<>> /\ connection_list = <<>>
    /\ analysisError = FALSE /\ objects_list = <<>> /\ key = 0
    /\ pass = 1 /\ firstPass = <<>>

\* the first pass is kept and the three calls are made again on the same image
SecondPass ==
    /\ pc = "update"
    /\ pass = 1
    /\ firstPass' = connection_list
    /\ pass' = 2
    /\ pc' = "detect"
    /\ detected_objects' = NoObjects
    /\ relationships' = <<>>
    /\ connection_list' = <<>>
    /\ UNCHANGED <<pairVars, runVars, ioVars, frame, image, heap, analysisError, objects_list, key>>

NextTwice == Detect \/ Analyze \/ Connect \/ SecondPass

SpecTwice == InitTwice /\ [][NextTwice]_vars

(***************************************************************************)
(* create_connection_list applied to a list of facts.                      *)
(***************************************************************************)
InitConn ==
    /\ pc = "connect"
    /\ IdlePair
    /\ IdleRun
    /\ IdleIo
    /\ frame = 1 /\ image = NoImage /\ heap = AddrBase
    /\ detected_objects = NoObjects
    /\ relationships \in FactLists
    /\ connection_list = <<>>
    /\ analysisError = FALSE /\ objects_list = <<>> /\ key = 0
    /\ pass = 1 /\ firstPass = <<>>

NextConn == Connect

SpecConn == InitConn /\ [][NextConn]_vars

(***************************************************************************)
(* detect_all_objects applied to an image with diver and enemy-missile     *)
(* regions.                                                                *)
(***************************************************************************)
InitMissile ==
    /\ pc = "detect"
    /\ IdlePair
    /\ IdleRun
    /\ IdleIo
    /\ frame = 1 /\ heap = AddrBase
    /\ image \in MissileImages
    /\ detected_objects = NoObjects /\ relationships = <<>> /\ connection_list = <<>>
    /\ analysisError = FALSE /\ objects_list = <<>> /\ key = 0
    /\ pass = 1 /\ firstPass = <<>>

NextMissile == Detect

SpecMissile == InitMissile /\ [][NextMissile]_vars

(***************************************************************************)
(* The methods of BaseObjectDetector called on their own on one image.     *)
(***************************************************************************)
\* the types of get_object_types and a type no configuration knows
TypesTried == {get_object_types[i] : i \in 1..Len(get_object_types)} \cup {"unknown_object"}

InitByType ==
    /\ pc = "call"
    /\ IdlePair
    /\ IdleRun
    /\ IdleIo
    /\ frame = 1 /\ heap = AddrBase
    /\ image \in Images(FewKeys)
    /\ detected_objects = NoObjects /\ relationships = <<>> /\ connection_list = <<>>
    /\ analysisError = FALSE /\ objects_list = <<>> /\ key = 0
    /\ pass = 1 /\ firstPass = <<>>

\* detector.detect_objects_by_type(image, object_type)
DetectByType ==
    /\ pc = "call"
    /\ \E object_type \in TypesTried :
          LET r == detect_objects_by_type_call(image, object_type, heap)
          IN  call' = [op |-> "detect_objects_by_type", object_type |-> object_type,
                       raised |-> r.raised, finder_calls |-> r.finder_calls,
                       objects |-> r.objects]
    /\ pc' = "called"
    /\ UNCHANGED <<pairVars, runVars, frameVars, gazeVars>>

\* BaseObjectDetector.detect_all_objects(detector, image)
DetectAllBase ==
    /\ pc = "call"
    /\ LET r == base_detect_all_objects(image, heap)
       IN  call' = [op |-> "detect_all_objects", raised |-> r.raised,
                    finder_calls |-> r.finder_calls, detected |-> r.detected]
    /\ pc' = "called"
    /\ UNCHANGED <<pairVars, runVars, frameVars, gazeVars>>

NextByType == DetectByType \/ DetectAllBase

SpecByType == InitByType /\ [][NextByType]_vars

(***************************************************************************)
(* _parse_gaze_line applied to one line.                                   *)
(***************************************************************************)
InitParse ==
    /\ pc = "parse"
    /\ IdlePair
    /\ IdleRun
    /\ IdleFrame
    /\ call = NoCall
    /\ log_lines \in {<<line>> : line \in ParseLines}
    /\ gaze_df = <<>> /\ load_error = "" /\ updates = <<>> /\ saved = None

\* parsed_line = self._parse_gaze_line(line)
ParseLine ==
    /\ pc = "parse"
    /\ call' = [op |-> "parse_gaze_line", outcome |-> parse_gaze_line(log_lines[1])]
    /\ pc' = "parsed"
    /\ UNCHANGED <<pairVars, runVars, frameVars, gazeVars>>

NextParse == ParseLine

SpecParse == InitParse /\ [][NextParse]_vars

(***************************************************************************)
(* The gaze table: load_gaze_data on a log file, then calls of             *)
(* update_frame_data, then save_updated_gaze_data.                         *)
(***************************************************************************)
InitGaze ==
    /\ pc = "gaze_load"
    /\ IdlePair
    /\ IdleRun
    /\ IdleFrame
    /\ call = NoCall
    /\ log_lines \in LogFiles
    /\ gaze_df = <<>> /\ load_error = "" /\ updates = <<>> /\ saved = None

\* self.gaze_df = self.gaze_processor.load_gaze_data(text_file_path); an
\* exception leaves load_gaze_data before anything is assigned
Load ==
    /\ pc = "gaze_load"
    /\ LET r == load_gaze_data(log_lines)
       IN  IF r.error = ""
             THEN /\ gaze_df' = r.table
                  /\ load_error' = ""
                  /\ pc' = "gaze_loaded"
             ELSE /\ gaze_df' = gaze_df
                  /\ load_error' = r.error
                  /\ pc' = "gaze_failed"
    /\ UNCHANGED <<pairVars, runVars, frameVars, call, log_lines, updates, saved>>

\* relationships_text = format_relationships_for_dataframe(relationships);
\* update_frame_data(self.gaze_df, frame_id, objects_list, relationships_text)
UpdateFrame ==
    /\ pc = "gaze_loaded"
    /\ Len(updates) < MaxUpdates
    /\ \E frame_id \in FrameIds, u \in UpdateInputs :
          LET relationships_text == format_relationships_for_dataframe(u.relationships)
          IN  /\ gaze_df' = update_frame_data(gaze_df, frame_id, u.objects_list,
                                              relationships_text)
              /\ updates' = Append(updates,
                                   [frame_id |-> frame_id,
                                    objects_list |-> u.objects_list,
                                    relationships |-> u.relationships,
                                    relationships_text |-> relationships_text])
    /\ UNCHANGED <<pc, pairVars, runVars, frameVars, call, log_lines, load_error, saved>>

\* self.gaze_processor.save_updated_gaze_data(self.gaze_df, text_file_path)
Save ==
    /\ pc = "gaze_loaded"
    /\ LET r == save_updated_gaze_data(gaze_df)
       IN  /\ gaze_df' = r.gaze_df
           /\ saved' = r.file
    /\ pc' = "gaze_saved"
    /\ UNCHANGED <<pairVars, runVars, frameVars, call, log_lines, load_error, updates>>

NextGaze == Load \/ UpdateFrame \/ Save

SpecGaze == InitGaze /\ [][NextGaze]_vars

(***************************************************************************)
(* The path save_updated_gaze_data writes to.                              *)
(***************************************************************************)
InitPath ==
    /\ pc = "path"
    /\ IdlePair
    /\ IdleFrame
    /\ IdleIo
    /\ folder = NoFolder /\ fps = 1 /\ images = <<>> /\ processed = <<>>
    /\ diagnostics = <<>> /\ run_error = ""
    /\ text_file_path \in Paths

\* new_path = save_updated_gaze_data(gaze_df, text_file_path)
SavePath ==
    /\ pc = "path"
    /\ call' = [op |-> "save_updated_gaze_data", new_path |-> new_path(text_file_path)]
    /\ pc' = "path_done"
    /\ UNCHANGED <<pairVars, runVars, frameVars, gazeVars>>

NextPath == SavePath

SpecPath == InitPath /\ [][NextPath]_vars

(***************************************************************************)
(* GameAnalysisApp.run on a folder: the start up to the first frame, the   *)
(* loop over the sorted images, and the export.                            *)
(***************************************************************************)
InitRun ==
    /\ pc = "run_start"
    /\ IdlePair
    /\ IdleFrame
    /\ call = NoCall
    /\ folder \in Folders
    /\ log_lines \in (IF folder.log_exists THEN RunLogs ELSE {<<>>})
    /\ fps \in {1, 2}
    /\ gaze_df = <<>> /\ load_error = "" /\ updates = <<>> /\ saved = None
    /\ images = <<>> /\ processed = <<>> /\ diagnostics = <<>> /\ run_error = ""
    /\ text_file_path = <<>>

\* lines 51-73 of run: the folder check, the load of the log, the sorted list of
\* images, and the shape of the first frame; first_frame.shape on None raises
\* AttributeError
StartRun ==
    /\ pc = "run_start"
    /\ LET loaded == load_or_continue(folder.log_exists, log_lines)
           sorted_images == get_sorted_images(folder.listing)
           failure ==
               IF ~folder.exists THEN "FileNotFoundError"
               ELSE IF loaded.error # "" THEN loaded.error
               ELSE IF sorted_images = <<>> THEN "ValueError"
               ELSE IF sorted_images[1] \in folder.unreadable THEN "AttributeError"
               ELSE ""
       IN  /\ run_error' = failure
           /\ pc' = IF failure = "" THEN "run_loop" ELSE "run_failed"
           /\ text_file_path' = IF folder.exists THEN text_file_path_of(ImageFolder)
                                ELSE text_file_path
           /\ gaze_df' = IF folder.exists /\ loaded.error = "" THEN loaded.table ELSE gaze_df
           /\ load_error' = IF folder.exists THEN loaded.error ELSE load_error
           /\ diagnostics' = IF folder.exists /\ loaded.warned
                               THEN Append(diagnostics, [kind |-> "gaze_not_found",
                                                         about |-> text_file_path_of(ImageFolder)])
                               ELSE diagnostics
           /\ images' = IF folder.exists /\ loaded.error = "" THEN sorted_images ELSE images
    /\ UNCHANGED <<pairVars, frameVars, call, log_lines, updates, saved, folder, fps, processed>>

\* if i % fps != 0: continue
SkipPosition ==
    /\ pc = "run_loop"
    /\ frame <= Len(images)
    /\ (frame - 1) % fps # 0
    /\ frame' = frame + 1
    /\ UNCHANGED <<pc, pairVars, ioVars, runVars, image, heap, detected_objects, relationships,
                   connection_list, analysisError, objects_list, key, pass, firstPass>>

\* _process_single_image on an image cv2.imread cannot read: "Failed to load
\* image", return
FailToLoad ==
    /\ pc = "run_loop"
    /\ frame <= Len(images)
    /\ (frame - 1) % fps = 0
    /\ images[frame] \in folder.unreadable
    /\ processed' = Append(processed, images[frame])
    /\ diagnostics' = Append(diagnostics, [kind |-> "failed_to_load", about |-> images[frame]])
    /\ frame' = frame + 1
    /\ UNCHANGED <<pc, pairVars, ioVars, folder, fps, images, run_error, text_file_path, image,
                   heap, detected_objects, relationships, connection_list, analysisError,
                   objects_list, key, pass, firstPass>>

\* lines 114-139 of _process_single_image on a readable image: detection,
\* analysis and the connection list
ProcessImage ==
    /\ pc = "run_loop"
    /\ frame <= Len(images)
    /\ (frame - 1) % fps = 0
    /\ images[frame] \notin folder.unreadable
    /\ processed' = Append(processed, images[frame])
    /\ \E img \in RunFrames, base \in {AddrBase, AddrBase + AddrStride} :
          LET detected == detect_all_objects(img, base)
              result == analyze_all_relationships(detected, base + objects_created(img))
          IN  /\ image' = img
              /\ detected_objects' = detected
              /\ heap' = base + objects_created(img)
                         + (IF result.raised THEN 0 ELSE Len(reference_levels))
              /\ analysisError' = result.raised
              /\ relationships' = IF result.raised THEN <<>> ELSE result.relationships
              /\ connection_list' = IF result.raised THEN <<>>
                                    ELSE create_connection_list(result.relationships)
    /\ pc' = "run_update"
    /\ UNCHANGED <<pairVars, ioVars, folder, fps, images, diagnostics, run_error, text_file_path,
                   frame, objects_list, key, pass, firstPass>>

\* lines 141-163 of _process_single_image: the update of the gaze table if it is
\* not empty, the display, and the key; ESC raises KeyboardInterrupt, which
\* nothing in run catches
UpdateAndDisplay ==
    /\ pc = "run_update"
    /\ LET frame_id == frame_id_of(images[frame])
           ids == get_all_objects_as_list(detected_objects)
           relationships_text == format_relationships_for_dataframe(relationships)
       IN  IF gaze_df # <<>>
             THEN /\ gaze_df' = update_frame_data(gaze_df, frame_id, ids, relationships_text)
                  /\ updates' = Append(updates,
                                       [frame_id |-> frame_id,
                                        objects_list |-> ids,
                                        relationships |-> relationships,
                                        relationships_text |-> relationships_text])
             ELSE UNCHANGED <<gaze_df, updates>>
    /\ \E k \in {ESC_KEY, ESC_KEY + 5} :
          /\ key' = k
          /\ IF k = ESC_KEY
               THEN /\ pc' = "run_interrupted"
                    /\ run_error' = "KeyboardInterrupt"
                    /\ UNCHANGED <<frame, image, heap, detected_objects, relationships,
                                   connection_list, analysisError>>
               ELSE /\ pc' = "run_loop"
                    /\ run_error' = run_error
                    /\ frame' = frame + 1
                    /\ image' = NoImage
                    /\ heap' = AddrBase
                    /\ detected_objects' = NoObjects
                    /\ relationships' = <<>>
                    /\ connection_list' = <<>>
                    /\ analysisError' = FALSE
    /\ UNCHANGED <<pairVars, call, log_lines, load_error, saved, folder, fps, images, processed,
                   diagnostics, text_file_path, objects_list, pass, firstPass>>

\* lines 91-96 of run, after the loop: the export if the table is not empty
FinishRun ==
    /\ pc = "run_loop"
    /\ frame > Len(images)
    /\ IF gaze_df # <<>>
         THEN LET r == save_updated_gaze_data(gaze_df)
              IN  /\ gaze_df' = r.gaze_df
                  /\ saved' = r.file
                  /\ call' = [op |-> "save_updated_gaze_data",
                              new_path |-> new_path(text_file_path)]
         ELSE UNCHANGED <<gaze_df, saved, call>>
    /\ pc' = "run_done"
    /\ UNCHANGED <<pairVars, frameVars, runVars, log_lines, load_error, updates>>

NextRun == StartRun \/ SkipPosition \/ FailToLoad \/ ProcessImage \/ UpdateAndDisplay \/ FinishRun

SpecRun == InitRun /\ [][NextRun]_vars

(***************************************************************************)
(* Detection and analysis of one image with objects of several types.      *)
(***************************************************************************)
InitOrder ==
    /\ pc = "detect"
    /\ IdlePair
    /\ IdleRun
    /\ IdleIo
    /\ frame = 1 /\ image \in OrderImages /\ heap = AddrBase
    /\ detected_objects = NoObjects /\ relationships = <<>> /\ connection_list = <<>>
    /\ analysisError = FALSE /\ objects_list = <<>> /\ key = 0
    /\ pass = 1 /\ firstPass = <<>>

NextOrder == Detect \/ Analyze

SpecOrder == InitOrder /\ [][NextOrder]_vars

(***************************************************************************)
(* filter_overlapping_objects of either detector on the player missiles    *)
(* and the players of one image, and the cleanup of detect_all_objects.    *)
(***************************************************************************)
InitFilter ==
    /\ pc = "detect"
    /\ IdlePair
    /\ IdleRun
    /\ IdleIo
    /\ frame = 1 /\ image \in FilterImages /\ heap = AddrBase
    /\ detected_objects = NoObjects /\ relationships = <<>> /\ connection_list = <<>>
    /\ analysisError = FALSE /\ objects_list = <<>> /\ key = 0
    /\ pass = 1 /\ firstPass = <<>>

\* detector.filter_overlapping_objects(objects1, objects2)
Filter ==
    /\ pc = "detect"
    /\ \E detector \in {"base", "seaquest"} :
          LET objects2 == make_objects("player", find_objects(image, "player"), heap)
              objects1 == make_objects("player_missile", find_objects(image, "player_missile"),
                                       heap + Len(objects2))
          IN  call' = [op |-> "filter_overlapping_objects", detector |-> detector,
                       objects1 |-> objects1, objects2 |-> objects2,
                       result |-> filter_overlapping_objects(detector, objects1, objects2)]
    /\ pc' = "called"
    /\ UNCHANGED <<pairVars, runVars, frameVars, gazeVars>>

NextFilter == Filter \/ Detect

SpecFilter == InitFilter /\ [][NextFilter]_vars

(***************************************************************************)
(* Properties of the pair scenario.                                        *)
(***************************************************************************)
VerticalTypes == {"aboveOf", "belowOf", "sameLevelAs"}

IsVertical(r) == r.relationship_type \in VerticalTypes

VerticalFacts(rels) == SelectSeq(rels, IsVertical)

PairAnalyzed == pc \in {"pair_analyzed", "pair_evaluated", "pair_done"}

\* C1 as claimed: every pair gets exactly one vertical fact, aboveOf if above_of
\* holds, otherwise belowOf if below_of holds, otherwise sameLevelAs.
C1_ExactlyOneVertical ==
    PairAnalyzed =>
        /\ Len(VerticalFacts(pairRels)) = 1
        /\ VerticalFacts(pairRels)[1].relationship_type =
              (IF above_of(objA, objB, MIN_COVERAGE_RATIO) THEN "aboveOf"
               ELSE IF below_of(objA, objB, MIN_COVERAGE_RATIO) THEN "belowOf"
               ELSE "sameLevelAs")

\* C1 amended: _analyze_object_relationships emits at most one vertical fact:
\* aboveOf if above_of holds, otherwise belowOf if below_of holds, otherwise
\* sameLevelAs if same_level_of holds, and no vertical fact at all when none of
\* the three predicates holds.
C1_AtMostOneVertical ==
    PairAnalyzed =>
        LET v == VerticalFacts(pairRels)
            a == above_of(objA, objB, MIN_COVERAGE_RATIO)
            b == below_of(objA, objB, MIN_COVERAGE_RATIO)
            s == same_level_of(objA, objB, MIN_COVERAGE_RATIO)
        IN  /\ Len(v) <= 1
            /\ a => (Len(v) = 1 /\ v[1].relationship_type = "aboveOf")
            /\ (~a /\ b) => (Len(v) = 1 /\ v[1].relationship_type = "belowOf")
            /\ (~a /\ ~b /\ s) => (Len(v) = 1 /\ v[1].relationship_type = "sameLevelAs")
            /\ (~a /\ ~b /\ ~s) => v = <<>>
            /\ \A i \in 1..Len(v) : v[i].obj1 = objA /\ v[i].obj2 = objB

\* a pair with no vertical relation: the midpoint of objA lies above objB's top
\* while objB is covered by more than the threshold
C1_Witness ==
    /\ PairAnalyzed
    /\ VerticalFacts(pairRels) = <<>>
    /\ mid_y(objA) < top(objB)
    /\ objB.height > 0

HorizontalOverlap(a, b) == a.x < b.x + b.width /\ b.x < a.x + a.width

\* C2 as claimed: left_of and right_of are never both true, and neither is true
\* when the horizontal extents overlap.
C2_LeftRightExclusive ==
    preds.evaluated =>
        /\ ~(preds.left_of /\ preds.right_of)
        /\ HorizontalOverlap(objA, objB) => (~preds.left_of /\ ~preds.right_of)

\* C2 amended: left_of and right_of are both true exactly when both boxes have
\* width 0 and the same x, so they are never both true when one of the boxes has
\* positive width; neither is true when the horizontal extents overlap.
C2_LeftRightExclusiveUnlessDegenerate ==
    preds.evaluated =>
        /\ (preds.left_of /\ preds.right_of)
              <=> (objA.width = 0 /\ objB.width = 0 /\ objA.x = objB.x)
        /\ HorizontalOverlap(objA, objB) => (~preds.left_of /\ ~preds.right_of)

\* both cases of C2 are met: an overlapping pair, here with neither relation
C2_Witness ==
    /\ preds.evaluated
    /\ HorizontalOverlap(objA, objB)
    /\ objA.x # objB.x
    /\ ~preds.left_of /\ ~preds.right_of

\* C3: above_of and below_of are never both true, whatever the threshold.
C3_AboveBelowExclusive ==
    preds.evaluated => ~(preds.above_of /\ preds.below_of)

\* below_of holds under a threshold other than the default, objB of height 0
C3_Witness ==
    /\ preds.evaluated
    /\ tau # MIN_COVERAGE_RATIO
    /\ preds.below_of
    /\ objB.height = 0

\* C4: same_level_of(a, b) holds iff b.top <= a.y + floor(a.height / 2) <= b.bottom
\* and the coverage max(0, min(a.bottom, b.bottom) - max(a.top, b.top)) is at least
\* 0.51 of b.height, a zero-height b never being at the same level.
C4_SameLevelIff ==
    (preds.evaluated /\ tau = MIN_COVERAGE_RATIO) =>
        LET m   == objA.y + (objA.height \div 2)
            lo  == IF objA.y >= objB.y THEN objA.y ELSE objB.y
            hi  == IF objA.y + objA.height <= objB.y + objB.height
                     THEN objA.y + objA.height ELSE objB.y + objB.height
            cov == IF hi - lo > 0 THEN hi - lo ELSE 0
        IN  preds.same_level_of <=>
               /\ objB.y <= m
               /\ m <= objB.y + objB.height
               /\ objB.height # 0
               /\ 100 * cov >= 51 * objB.height

\* same level with the midpoint of objA exactly on objB's top edge
C4_Witness ==
    /\ preds.evaluated
    /\ tau = MIN_COVERAGE_RATIO
    /\ preds.same_level_of
    /\ mid_y(objA) = top(objB)

\* C5: the (squared) center distance of SpatialRelationship(a, b, t) equals that
\* of SpatialRelationship(b, a, t).
C5_DistanceSymmetric ==
    swapRels # <<>> => swapRels[1].distance = swapRels[2].distance

\* two boxes of different sizes at a positive distance
C5_Witness ==
    /\ swapRels # <<>>
    /\ swapRels[1].obj1 = objA /\ swapRels[2].obj1 = objB
    /\ swapRels[1].distance > 0
    /\ objA.width # objB.width
    /\ objA.height # objB.height

(***************************************************************************)
(* Properties of create_connection_list.                                   *)
(***************************************************************************)

\* a reference-level pseudo-object: the virtual object of a reference level
IsReferenceObject(obj) ==
    \E k \in 1..Len(reference_levels) : obj.object_type = reference_levels[k][1]

IsNonReferenceFact(r) == ~IsReferenceObject(r.obj2)

SamePair(r, c) == r.obj1 = c.obj1 /\ r.obj2 = c.obj2

\* the index in facts of the first fact of connection c's pair
FirstFactOf(facts, c) ==
    CHOOSE i \in 1..Len(facts) :
        /\ SamePair(facts[i], c)
        /\ \A j \in 1..Len(facts) : SamePair(facts[j], c) => i <= j

TagsOf(facts, c) ==
    LET ofPair(r) == SamePair(r, c)
        sel == SelectSeq(facts, ofPair)
    IN  [i \in 1..Len(sel) |-> sel[i].relationship_type]

\* C6: create_connection_list returns exactly one connection per distinct
\* (obj1, obj2) pair among the non-reference facts, ordered by the pair's first
\* occurrence; its tags are the pair's relationship types in input order, its
\* distance is that of the pair's first fact, and no connection has a
\* reference-level pseudo-object as obj2.
C6_OneConnectionPerPair ==
    pc = "update" =>
        LET facts == SelectSeq(relationships, IsNonReferenceFact)
            conns == connection_list
        IN  /\ \A i \in 1..Len(facts) :
                  Cardinality({k \in 1..Len(conns) : SamePair(facts[i], conns[k])}) = 1
            /\ \A k \in 1..Len(conns) :
                  /\ \E i \in 1..Len(facts) : SamePair(facts[i], conns[k])
                  /\ ~IsReferenceObject(conns[k].obj2)
                  /\ conns[k].relationships = TagsOf(facts, conns[k])
                  /\ conns[k].distance = facts[FirstFactOf(facts, conns[k])].distance
            /\ \A k \in 1..Len(conns), l \in 1..Len(conns) :
                  k < l => FirstFactOf(facts, conns[k]) < FirstFactOf(facts, conns[l])

\* facts of one pair separated by a fact of another pair and a reference fact
C6_Witness ==
    /\ pc = "update"
    /\ Len(relationships) >= 3
    /\ relationships[1].obj2 = PoolEnemy0
    /\ relationships[2].obj2 \in {PoolEnemy1, PoolReference}
    /\ relationships[3] # relationships[1]
    /\ relationships[3].obj1 = relationships[1].obj1
    /\ relationships[3].obj2 = PoolEnemy0
    /\ Len(connection_list[1].relationships) = 2

(***************************************************************************)
(* Properties of the frame scenarios.                                      *)
(***************************************************************************)
Analyzed == pc \in {"connect", "update", "display", "interrupted"}

IsReferenceFact(r) == IsReferenceObject(r.obj2)

\* C7: with a player, analyze_all_relationships emits exactly one reference-level
\* fact per configured reference level, 'above' iff player.y < level_y and 'below'
\* otherwise, whatever the player's size and the other entities.
C7_ReferenceFactFromPlayerY ==
    (Analyzed /\ detected_objects["player"] # <<>>) =>
        LET refs == SelectSeq(relationships, IsReferenceFact)
            player == detected_objects["player"][1]
        IN  /\ Len(refs) = Len(reference_levels)
            /\ \A k \in 1..Len(refs) :
                  /\ refs[k].obj1 = player
                  /\ refs[k].obj2.object_type = reference_levels[k][1]
                  /\ refs[k].relationship_type =
                        (IF player.y < reference_levels[k][2]
                           THEN "above" \o Capitalize(reference_levels[k][1])
                           ELSE "below" \o Capitalize(reference_levels[k][1]))

\* a player whose top is above the water line and whose center is below it, with
\* another entity in the frame
C7_Witness ==
    /\ Analyzed
    /\ detected_objects["player"] # <<>>
    /\ detected_objects["player"][1].y < WATER_SURFACE_Y
    /\ center(detected_objects["player"][1])[2] > WATER_SURFACE_Y
    /\ detected_objects["enemy"] # <<>>
    /\ relationships[1].relationship_type = "aboveWater_surface"

\* C8: without a player, analyze_all_relationships returns an empty list and
\* create_connection_list an empty connection list, neither raises, and the loop
\* over the images is left only by the cancel key.
C8_NoPlayerEmptyLists ==
    /\ (Analyzed /\ detected_objects["player"] = <<>>) =>
          /\ relationships = <<>>
          /\ connection_list = <<>>
          /\ ~analysisError
    /\ pc = "interrupted" => key = ESC_KEY

\* a frame with an enemy and no player was processed, and the loop is at the
\* display of that frame
C8_Witness ==
    /\ pc = "display"
    /\ detected_objects["player"] = <<>>
    /\ detected_objects["enemy"] # <<>>
    /\ detected_objects["diver"] # <<>>
    /\ relationships = <<>>
    /\ connection_list = <<>>

\* a GameObject as it prints and compares by value: all but id(self)
Shown(obj) ==
    [object_type |-> obj.object_type, bounding_box |-> bounding_box(obj),
     facing_side |-> obj.facing_side, object_id |-> obj.object_id]

ShownConnections(conns) ==
    [k \in 1..Len(conns) |->
        [obj1 |-> Shown(conns[k].obj1), obj2 |-> Shown(conns[k].obj2),
         relationships |-> conns[k].relationships, distance |-> conns[k].distance]]

\* C9: two passes of detect_all_objects, analyze_all_relationships and
\* create_connection_list over the same image give identical connection lists.
C9_SameConnections ==
    (pass = 2 /\ pc = "update") =>
        ShownConnections(connection_list) = ShownConnections(firstPass)

\* C10: the entity created for the i-th box of type T has object_id T_i, and
\* these are the ids get_all_objects_as_list returns.
C10_PositionalIds ==
    pc \in {"display", "interrupted"} =>
        /\ \A t \in {"player", "diver", "collected_diver", "lives", "oxygen_bar"} :
              \A i \in 1..Len(detected_objects[t]) :
                  detected_objects[t][i].object_id = <<t, i - 1>>
        /\ \A i \in 1..Len(objects_list), j \in 1..Len(objects_list) :
              i # j => objects_list[i] # objects_list[j]

(***************************************************************************)
(* Properties of the missile scenario.                                     *)
(***************************************************************************)
Detected == pc = "analyze"

Boxes(objs) == [i \in 1..Len(objs) |-> bounding_box(objs[i])]

\* the window of the reclassification: 6 <= width <= 8 and height = 4
InWindow(box) == 6 <= box[3] /\ box[3] <= 8 /\ box[4] = 4

OutOfWindow(box) == ~InWindow(box)

\* the top-left corner of box c lies inside box d, edges included
CornerInside(c, d) ==
    /\ c[1] >= d[1] /\ c[1] <= d[1] + d[3]
    /\ c[2] >= d[2] /\ c[2] <= d[2] + d[4]

\* C11: after detect_all_objects every diver candidate with 6 <= width <= 8 and
\* height = 4 is in the enemy_missile list and no longer in the diver list, and
\* the diver candidates outside the window stay in the diver list and are not
\* added to the enemy_missile list.
C11_SmallDiversMoved ==
    Detected =>
        LET cands == find_objects(image, "diver")
            small == SelectSeq(cands, InWindow)
            missiles == Boxes(detected_objects["enemy_missile"])
        IN  /\ Boxes(detected_objects["diver"]) = SelectSeq(cands, OutOfWindow)
            /\ Len(missiles) >= Len(small)
            /\ SubSeq(missiles, Len(missiles) - Len(small) + 1, Len(missiles)) = small
            /\ Len(missiles) <= Len(find_objects(image, "enemy_missile")) + Len(small)

\* C12: an enemy-missile candidate is dropped from the result of
\* _detect_enemy_missiles iff its top-left corner lies inside (edges included)
\* the box of some detected diver; the other candidates are kept in candidate
\* order, ahead of whatever the reclassification adds.
C12_CornerSuppression ==
    Detected =>
        LET cands == find_objects(image, "enemy_missile")
            divers == Boxes(detected_objects["diver"])
            hit(c) == \E j \in 1..Len(divers) : CornerInside(c, divers[j])
            miss(c) == ~hit(c)
            kept == SelectSeq(cands, miss)
            result == detected_objects["enemy_missile"]
        IN  /\ Len(result) >= Len(kept)
            /\ Boxes(SubSeq(result, 1, Len(kept))) = kept
            /\ \A i \in Len(kept) + 1..Len(result) :
                  \E j \in 1..Len(divers) :
                     divers[j] = bounding_box(result[i]) /\ InWindow(divers[j])

\* a diver, a candidate dropped on an edge of its box, and two candidates kept
C12_Witness ==
    /\ Detected
    /\ LET cands == find_objects(image, "enemy_missile")
           divers == find_objects(image, "diver")
           hit(c) == \E j \in 1..Len(divers) : CornerInside(c, divers[j])
       IN  /\ \E i \in 1..Len(cands), j \in 1..Len(divers) :
                 /\ CornerInside(cands[i], divers[j])
                 /\ cands[i][1] = divers[j][1] + divers[j][3]
           /\ \E i, k \in 1..Len(cands) :
                 i < k /\ ~hit(cands[i]) /\ ~hit(cands[k]) /\ cands[i] # cands[k]

(***************************************************************************)
(* Properties of the detector calls.                                       *)
(***************************************************************************)
\* C13: detect_objects_by_type with a type that has no color signature returns
\* the empty list, makes no call of find_objects and does not raise; so
\* detect_all_objects never raises, and gives such a type the empty list.
C13_UnknownTypeEmpty ==
    /\ (pc = "called" /\ call.op = "detect_objects_by_type"
            /\ call.object_type \notin OBJECT_COLORS)
          => (call.objects = <<>> /\ call.finder_calls = <<>> /\ ~call.raised)
    /\ (pc = "called" /\ call.op = "detect_all_objects")
          => /\ ~call.raised
             /\ DOMAIN call.detected = {get_object_types[i] : i \in 1..Len(get_object_types)}
             /\ \A t \in DOMAIN call.detected :
                   t \notin OBJECT_COLORS => call.detected[t] = <<>>
             /\ \A i \in 1..Len(call.finder_calls) : call.finder_calls[i] \in OBJECT_COLORS

\* detect_all_objects on an image with an enemy region: the type 'enemy' has no
\* color signature
C13_Witness ==
    /\ pc = "called" /\ call.op = "detect_all_objects"
    /\ find_objects(image, "enemy_green") # <<>>
    /\ find_objects(image, "player") # <<>>
    /\ call.detected["player"] # <<>>
    /\ call.detected["enemy"] = <<>>

(***************************************************************************)
(* Properties of the gaze table.                                           *)
(***************************************************************************)
AfterLoad == pc \in {"gaze_loaded", "gaze_failed", "gaze_saved"}

IsNumber(field) == field[1] \in {"int", "dec"}

\* the line has more than 7 fields, an even number of fields from the 7th on,
\* and every one of these is a number
Accepted(line) ==
    /\ Len(line) > 7
    /\ (Len(line) - 6) % 2 = 0
    /\ \A i \in 7..Len(line) : IsNumber(line[i])

\* the row is the one of the line: same frame, episode and score, and one
\* gaze position for every two coordinate fields
RowOf(row, line) ==
    /\ row.frameid = line[1] /\ row.episode_id = line[2] /\ row.score = line[3]
    /\ Len(row.gaze_positions) * 2 = Len(line) - 6

\* C14: load adds a row for a line iff the line has more than 7 fields, an even
\* number of fields from the 7th on and parseable coordinates: the rows of the
\* table are those of the accepted lines, one each, in line order.
C14_RowsAreAcceptedLines ==
    AfterLoad =>
        LET accepted == SelectSeq(log_lines, Accepted)
        IN  /\ Len(gaze_df) = Len(accepted)
            /\ \A i \in 1..Len(gaze_df) : RowOf(gaze_df[i], accepted[i])

\* the number of a numeric field, in tenths
Tenths(field) == IF field[1] = "int" THEN 10 * field[2] ELSE field[2]

\* n is the number t/10 truncated toward zero
IsTruncation(n, t) ==
    /\ t >= 0 => (n >= 0 /\ 10 * n <= t /\ t < 10 * (n + 1))
    /\ t <= 0 => (n <= 0 /\ 10 * n >= t /\ t > 10 * (n - 1))

\* C15: for an accepted line the row has frameid, episode_id and score equal to
\* fields 1-3 as they are, action equal to field 6 as an integer, gaze_positions
\* equal to the consecutive pairs of the fields from the 7th on, each truncated
\* toward zero, in file order, and empty objects and relationships; the line
\* 'f1,e1,10,0.5,1.0,3,5,6,7,8' gives frameid f1, action 3 and [(5,6),(7,8)].
C15_RowFields ==
    (pc = "parsed" /\ call.outcome.result = "row") =>
        LET parts == log_lines[1]
            row == call.outcome.row
        IN  /\ row.frameid = parts[1]
            /\ row.episode_id = parts[2]
            /\ row.score = parts[3]
            /\ parts[6][1] = "int" /\ row.action = parts[6][2]
            /\ Len(row.gaze_positions) * 2 = Len(parts) - 6
            /\ \A k \in 1..Len(row.gaze_positions) :
                  /\ IsTruncation(row.gaze_positions[k][1], Tenths(parts[6 + 2 * k - 1]))
                  /\ IsTruncation(row.gaze_positions[k][2], Tenths(parts[6 + 2 * k]))
            /\ row.objects = <<>>
            /\ row.relationships = <<>>
            /\ parts = ExampleLine =>
                  /\ row.frameid = <<"str", "f1">>
                  /\ row.action = 3
                  /\ row.gaze_positions = << <<5, 6>>, <<7, 8>> >>

\* an accepted line with two pairs of coordinates, one of them -5.7 and one -0.3
C15_Witness ==
    /\ pc = "parsed"
    /\ call.outcome.result = "row"
    /\ Len(call.outcome.row.gaze_positions) = 2
    /\ \E i \in 7..Len(log_lines[1]) : log_lines[1][i] = <<"dec", -57>>
    /\ \E i \in 7..Len(log_lines[1]) : log_lines[1][i] = <<"dec", -3>>
    /\ \E k \in 1..2 : call.outcome.row.gaze_positions[k][1] = -5

\* the line is well formed: accepted, with numeric duration and reward and an
\* integer action
WellFormed(line) ==
    /\ Accepted(line)
    /\ IsNumber(line[4]) /\ IsNumber(line[5]) /\ line[6][1] = "int"

\* C16: load never fails because of a malformed line: it returns a table, and
\* the table holds the rows of all the well-formed lines, those before and
\* those after a skipped line, in line order.
C16_LoadNeverFails ==
    AfterLoad =>
        LET loaded == SelectSeq(log_lines, WellFormed)
        IN  /\ pc # "gaze_failed"
            /\ load_error = ""
            /\ Len(gaze_df) = Len(loaded)
            /\ \A i \in 1..Len(gaze_df) : RowOf(gaze_df[i], loaded[i])

\* no call of update_frame_data was given the frame id of the row
Untargeted(row) == \A k \in 1..Len(updates) : updates[k].frame_id # row.frameid

\* C17: after any sequence of update calls the table has the rows of the loaded
\* table in the same order; only the objects and relationships cells may
\* differ, and only in rows whose frameid was given to a call: a call whose id
\* matches no row, or on an empty table, changes nothing.
C17_UpdateKeepsRows ==
    pc = "gaze_loaded" =>
        LET loaded == load_gaze_data(log_lines).table
        IN  /\ Len(gaze_df) = Len(loaded)
            /\ \A i \in 1..Len(gaze_df) :
                  /\ DOMAIN gaze_df[i] = DOMAIN loaded[i]
                  /\ \A c \in DOMAIN loaded[i] \ {"objects", "relationships"} :
                        gaze_df[i][c] = loaded[i][c]
                  /\ Untargeted(loaded[i]) => gaze_df[i] = loaded[i]

\* a table of two frames after a call for a frame it does not have and a call
\* that filled the row of one of its frames
C17_Witness ==
    /\ pc = "gaze_loaded"
    /\ Len(gaze_df) = 2
    /\ gaze_df[1].frameid # gaze_df[2].frameid
    /\ Len(updates) >= 2
    /\ \E k \in 1..Len(updates) : \A i \in 1..2 : updates[k].frame_id # gaze_df[i].frameid
    /\ \E i \in 1..2 : gaze_df[i].objects # <<>> /\ gaze_df[i].relationships # <<>>
    /\ \E i \in 1..2 : Untargeted(gaze_df[i])

\* the ids joined by ' , ' with a trailing ' , ', the empty text for no id
JoinedIds(ids) ==
    [k \in 1..2 * Len(ids) |-> IF k % 2 = 1 THEN ids[(k + 1) \div 2] ELSE DELIM]

\* the texts a row of frame f holds if every call for f appends to them
RECURSIVE ObjectsAppended(_, _)
ObjectsAppended(calls, f) ==
    IF calls = <<>> THEN <<>>
    ELSE (IF Head(calls).frame_id = f THEN JoinedIds(Head(calls).objects_list) ELSE <<>>)
         \o ObjectsAppended(Tail(calls), f)

RECURSIVE RelationshipsAppended(_, _)
RelationshipsAppended(calls, f) ==
    IF calls = <<>> THEN <<>>
    ELSE (IF Head(calls).frame_id = f THEN Head(calls).relationships_text ELSE <<>>)
         \o RelationshipsAppended(Tail(calls), f)

\* C18: update appends: after update(f, objs1, rel1) and then
\* update(f, objs2, rel2) the objects text of the row of f is the joined ids of
\* objs1 followed by those of objs2, and its relationships text is rel1
\* followed by rel2.
C18_UpdateAppends ==
    pc = "gaze_loaded" =>
        \A i \in 1..Len(gaze_df) :
            /\ gaze_df[i].objects = ObjectsAppended(updates, gaze_df[i].frameid)
            /\ gaze_df[i].relationships = RelationshipsAppended(updates, gaze_df[i].frameid)

\* the text has one token per fact, each followed by ' , ': relation(arg1) for a
\* fact about a reference level, relation(arg1,arg2) for any other fact
FollowsConvention(text, facts) ==
    /\ Len(text) = 2 * Len(facts)
    /\ \A j \in 1..Len(facts) :
          /\ text[2 * j] = DELIM
          /\ text[2 * j - 1][1] = "rel"
          /\ text[2 * j - 1][2] = facts[j].relationship_type
          /\ Len(text[2 * j - 1]) = IF IsReferenceFact(facts[j]) THEN 3 ELSE 4

\* C19: after update(f, ids, text) on a table that has f, the objects text of
\* the row of f is the ids joined by ' , ' with a trailing ' , ' (the empty text
\* for no ids) and its relationships text is the given text; the text made by
\* format_relationships_for_dataframe follows the same convention, with a token
\* relation(arg1) per reference-level fact and relation(arg1,arg2) per other fact.
C19_TextFormat ==
    (pc = "gaze_loaded" /\ updates # <<>>) =>
        LET u == updates[Len(updates)]
        IN  /\ \A i \in 1..Len(gaze_df) :
                  gaze_df[i].frameid = u.frame_id =>
                      /\ gaze_df[i].objects = JoinedIds(u.objects_list)
                      /\ gaze_df[i].relationships = u.relationships_text
            /\ FollowsConvention(u.relationships_text, u.relationships)

\* the last call filled a row with two ids and with the tokens of a
\* reference-level fact and of another fact
C19_Witness ==
    /\ pc = "gaze_loaded"
    /\ updates # <<>>
    /\ LET u == updates[Len(updates)]
       IN  /\ Len(u.objects_list) = 2
           /\ \E j \in 1..Len(u.relationships) : IsReferenceFact(u.relationships[j])
           /\ \E j \in 1..Len(u.relationships) : ~IsReferenceFact(u.relationships[j])
           /\ \E i \in 1..Len(gaze_df) :
                 /\ gaze_df[i].frameid = u.frame_id
                 /\ Len(gaze_df[i].objects) = 4

\* C20: export writes every row once, in the order of the table, with every
\* column except gaze_positions, objects and relationships included, and leaves
\* the table in memory as it was, gaze_positions still present.
C20_ExportKeepsTable ==
    [][pc' = "gaze_saved" =>
          /\ gaze_df' = gaze_df
          /\ \A i \in 1..Len(gaze_df') : "gaze_positions" \in DOMAIN gaze_df'[i]
          /\ Len(saved'.rows) = Len(gaze_df)
          /\ \A i \in 1..Len(gaze_df) :
                /\ {saved'.columns[j] : j \in 1..Len(saved'.columns)}
                     = DOMAIN gaze_df[i] \ {"gaze_positions"}
                /\ Len(saved'.rows[i]) = Len(saved'.columns)
                /\ \A j \in 1..Len(saved'.columns) :
                      saved'.rows[i][j] = gaze_df[i][saved'.columns[j]]
          /\ \A j, k \in 1..Len(saved'.columns) :
                saved'.columns[j] = saved'.columns[k] => j = k]_vars

\* a table of two rows, one of them filled by an update, was exported
C20_Witness ==
    /\ pc = "gaze_saved"
    /\ Len(gaze_df) = 2
    /\ Len(saved.rows) = 2
    /\ \E i \in 1..2 : gaze_df[i].objects # <<>>
    /\ \E i \in 1..2 : gaze_df[i].objects = <<>>

(***************************************************************************)
(* Properties of the export path.                                          *)
(***************************************************************************)
\* C21: for every log path ending in '.txt', export returns the path in which
\* that final '.txt' is replaced by '_with_relationships.txt' and every other
\* piece is as it was.
C21_FinalSuffixReplaced ==
    (pc = "path_done" /\ text_file_path # <<>>
        /\ text_file_path[Len(text_file_path)] = ".txt") =>
        call.new_path = SubSeq(text_file_path, 1, Len(text_file_path) - 1)
                           \o <<"_with_relationships", ".txt">>

(***************************************************************************)
(* Properties of the run.                                                  *)
(***************************************************************************)
\* the export was written
Exported == DOMAIN saved # {}

Started == pc # "run_start"

\* the diagnostics of the given kind
Diagnosed(kind) == {diagnostics[i].about : i \in {j \in 1..Len(diagnostics) : diagnostics[j].kind = kind}}

\* C22: a run cancelled with ESC while its gaze table is not empty ends with
\* the export written.
C22_CancelledRunExports ==
    (pc = "run_interrupted" /\ gaze_df # <<>>) => Exported

\* C23 as stated: if the frame folder or the gaze log is absent, the run fails
\* at startup, no frame is processed and nothing is exported.
C23_AbsentInputFails ==
    (Started /\ (~folder.exists \/ ~folder.log_exists)) =>
        (pc = "run_failed" /\ processed = <<>> /\ ~Exported)

\* C23: an absent frame folder makes the run fail at startup with
\* FileNotFoundError, no frame processed and no export; an absent gaze log is
\* not an error: a warning is printed, the table is empty, the run goes on
\* without gaze data and exports nothing.
C23_MissingInputs ==
    /\ (Started /\ ~folder.exists) =>
          (pc = "run_failed" /\ run_error = "FileNotFoundError" /\ processed = <<>>
           /\ diagnostics = <<>> /\ ~Exported)
    /\ (Started /\ folder.exists /\ ~folder.log_exists) =>
          (/\ run_error # "FileNotFoundError"
           /\ Diagnosed("gaze_not_found") = {text_file_path}
           /\ gaze_df = <<>>
           /\ updates = <<>>
           /\ ~Exported)

C23_Witness ==
    pc = "run_done" /\ folder.exists /\ ~folder.log_exists /\ Len(processed) >= 2

\* C24: an image that cannot be read never ends the run: every such frame is
\* skipped with a diagnostic, wherever it stands in the list.
C24_UnreadableImageSkipped ==
    /\ run_error # "AttributeError"
    /\ \A i \in 1..Len(processed) :
          processed[i] \in folder.unreadable => processed[i] \in Diagnosed("failed_to_load")

\* the image names of the folder, in the order of the listing
Listed == SelectSeq(folder.listing, is_image)

PositionIn(list, x) == CHOOSE i \in 1..Len(list) : list[i] = x

\* the frames handed to the detector so far
Detections == {i \in 1..Len(processed) : processed[i] \notin folder.unreadable}

\* C25 as stated: the frames are processed in strictly increasing order of
\* their trailing integer index.
C25_StrictIndexOrder ==
    \A i, j \in 1..Len(processed) :
        i < j => /\ sort_key(processed[i])[1] = "ok"
                 /\ sort_key(processed[j])[1] = "ok"
                 /\ sort_key(processed[i])[2] < sort_key(processed[j])[2]

\* C25: the frames are processed one at a time in the order of the sorted list,
\* at the positions divisible by fps and none twice; the list holds every image
\* name of the folder once, by non-decreasing trailing index with names of equal
\* index in the order of the listing when every name has an index, and in
\* alphabetical order otherwise; the update of a frame is done before the next
\* frame is detected.
C25_SortedOrder ==
    /\ \A i \in 1..Len(processed) : processed[i] = images[(i - 1) * fps + 1]
    /\ \A i, j \in 1..Len(processed) : i # j => processed[i] # processed[j]
    /\ (Started /\ folder.exists /\ load_error = "") =>
          /\ Len(images) = Len(Listed)
          /\ Range(images) = Range(Listed)
          /\ \A i, j \in 1..Len(images) :
                i < j =>
                    IF \A n \in Range(Listed) : sort_key(n)[1] = "ok"
                      THEN \/ sort_key(images[i])[2] < sort_key(images[j])[2]
                           \/ /\ sort_key(images[i])[2] = sort_key(images[j])[2]
                              /\ PositionIn(Listed, images[i]) < PositionIn(Listed, images[j])
                      ELSE name_less(images[i], images[j])
    /\ gaze_df # <<>> =>
          Len(updates) = Cardinality(Detections) - (IF pc = "run_update" THEN 1 ELSE 0)

C25_Witness ==
    /\ pc = "run_done" /\ fps = 2 /\ Len(processed) = 2 /\ Len(updates) = 2
    /\ sort_key(processed[1])[2] = sort_key(processed[2])[2]

(***************************************************************************)
(* Properties of the skipped lines and of the frame ids of the table.      *)
(***************************************************************************)
\* the line given to _parse_gaze_line yields no row and no exception
LineSkipped == pc = "parsed" /\ call.outcome.result = "None"

\* C26 as stated: every line that yields no row has had a warning printed.
C26_SkippedLineWarned == LineSkipped => call.outcome.warned

\* C26: a line that yields no row has had a warning printed exactly when it
\* has more than seven fields, that is when it is skipped for an odd number of
\* coordinates or for a coordinate that is not a number; a line with at most
\* seven fields is skipped without any message.
C26_SkippedWarnedUnlessShort ==
    LineSkipped => (call.outcome.warned <=> Len(log_lines[1]) > 7)

C26_Witness ==
    LineSkipped /\ call.outcome.warned /\ Len(log_lines[1]) = 8

\* C27: after load no two rows of the gaze table have the same frameid.
C27_OneRowPerFrameId ==
    AfterLoad => \A i, j \in 1..Len(gaze_df) :
                     i # j => gaze_df[i].frameid # gaze_df[j].frameid

(***************************************************************************)
(* Properties of the order of the relationship list.                       *)
(***************************************************************************)
\* the types of the claim, in its order
ClaimedTypeOrder == <<"enemy", "enemy_submarine", "enemy_missile", "diver">>

IndexIn(list, x) == CHOOSE k \in 1..Len(list) : list[k] = x

\* the place of a fact about a detected object: its type, its place among the
\* detected objects of that type, and horizontal before vertical
TypeRank(r) == IndexIn(ClaimedTypeOrder, r.obj2.object_type)

DetectionRank(r) == IndexIn(detected_objects[r.obj2.object_type], r.obj2)

AxisRank(r) == IF r.relationship_type \in {"leftOf", "rightOf"} THEN 1 ELSE 2

Precedes(r, q) ==
    \/ TypeRank(r) < TypeRank(q)
    \/ TypeRank(r) = TypeRank(q) /\ DetectionRank(r) < DetectionRank(q)
    \/ TypeRank(r) = TypeRank(q) /\ DetectionRank(r) = DetectionRank(q)
          /\ AxisRank(r) < AxisRank(q)

OrderAnalyzed == pc = "connect" /\ detected_objects["player"] # <<>>

Filtered == pc = "called" /\ call.op = "filter_overlapping_objects"

OverlapsAny(obj, objects) == \E j \in 1..Len(objects) : overlaps(obj, objects[j])

CornerInAny(obj, objects) ==
    \E j \in 1..Len(objects) : CornerInside(bounding_box(obj), bounding_box(objects[j]))

\* C29 as stated: either detector's filter returns, in order, the objects of
\* objects1 that overlap no object of objects2, and after detect_all_objects
\* no player missile overlaps a player.
C29_FilterRemovesOverlapping ==
    /\ Filtered =>
          LET keep(obj) == ~OverlapsAny(obj, call.objects2)
          IN  call.result = SelectSeq(call.objects1, keep)
    /\ pc = "analyze" =>
          \A i \in 1..Len(detected_objects["player_missile"]) :
              ~OverlapsAny(detected_objects["player_missile"][i], detected_objects["player"])

\* C29: the filter returns, in order, the objects of objects1 for which the
\* detector's own overlap test fails against every object of objects2: for the
\* base detector the boxes share no area, for the Seaquest detector the
\* top-left corner of the object lies in no box of objects2, edges included.
\* After detect_all_objects the player missiles are the candidates whose
\* top-left corner lies in no player box.
C29_FilterByOwnOverlapTest ==
    /\ Filtered =>
          LET keep(obj) == IF call.detector = "seaquest"
                             THEN ~CornerInAny(obj, call.objects2)
                             ELSE ~OverlapsAny(obj, call.objects2)
          IN  call.result = SelectSeq(call.objects1, keep)
    /\ pc = "analyze" =>
          LET outside(box) ==
                  \A j \in 1..Len(image["player"]) : ~CornerInside(box, image["player"][j])
          IN  Boxes(detected_objects["player_missile"]) = SelectSeq(image["player_missile"], outside)

\* the Seaquest filter keeps an object that overlaps one of objects2 and
\* removes one that overlaps none
C29_Witness ==
    /\ Filtered /\ call.detector = "seaquest" /\ Len(call.objects2) = 2
    /\ \E i \in 1..Len(call.result) : OverlapsAny(call.result[i], call.objects2)

(***************************************************************************)
(* Properties of the labels of the enemy missiles.                         *)
(***************************************************************************)
\* C30: after detect_all_objects the labels 'enemy_missile_<k>' of the objects
\* in the enemy_missile list are pairwise distinct.
C30_MissileLabelsDistinct ==
    Detected =>
        \A i, j \in 1..Len(detected_objects["enemy_missile"]) :
            i # j => detected_objects["enemy_missile"][i].facing_side
                     # detected_objects["enemy_missile"][j].facing_side

====
